---- MODULE Spec2Model ----
(***************************************************************************)
(* State-machine model of the activity monitor's notification store       *)
(* (StorageManager, storage.js) with the compression utility it calls and  *)
(* the capture layer that feeds it.                                        *)
(*                                                                         *)
(* One step of the model is one JavaScript task: a call of a public method *)
(* up to the point where it returns to its caller, or the continuation of  *)
(* an async method after an awaited compression or decompression.          *)
(***************************************************************************)
EXTENDS Integers, Sequences, FiniteSets, TLC

\* ------------------------------------------------------------------ bounds
\* Number of records the capture layer creates (ids 1..MaxAdds).
MaxAdds == 3
\* Largest merge count a record reaches.
MaxCount == 2
\* Largest item-count limit tried for the count-bounded modes.
MaxLimit == 2
\* Saves that may be between their compress call and their write at once.
MaxSaves == 2
\* Eviction passes that may be awaiting a measurement at once.
MaxPrunes == 1
\* Loads that may be awaiting their decompression at once.
MaxLoads == 1
\* Length in characters of the free-text messages of Info events: two
\* info records together fill the 10 % byte budget exactly.
InfoMsgLen == 270
\* Records the capture layer creates in the runs of the whole store.
MaxStoreAdds == 2
\* Calls of public methods in a run of the whole store.
MaxCalls == 3
\* Milliseconds the clock may advance between the capture layer's
\* Date.now() and the one addNotification reads.
MaxCaptureLag == 1
\* Events the capture layer accepts in the capture runs.
MaxCaptures == 2
\* Records the store holds before an eviction pass in the eviction runs.
MaxPreloaded == 12

\* ------------------------------------------------------- program constants
SAVE_DEBOUNCE_MS == 1000
MAX_CHARACTER_SAVE_BYTES == 8192
\* Size of a re-measurement batch in pruneToPercentage (pruneCount % 5).
PruneBatch == 5
\* Length of an id made by generateId: 8 base-36 digits, '-', 4 characters.
IdLen == 13
\* Decimal digits of a Date.now() value (years 2001 to 2286).
TimestampLen == 13

\* --------------------------------------------------------- value encodings
\* JavaScript's undefined (an absent field), null timer handle and NaN.
undefined == -1
null == 0
NaN == -2

\* Instants Date.now() returns in the model (milliseconds): around the
\* 10 s grouping window for ingest, around the debounce delay for the store.
Times == {0, 1, 10000, 10001}
StoreTimes == {0, 1, 1000, 1001}

Modes == {"character-save", "local-storage", "memory-only"}
SaveTypes == {"percentage", "line-count"}
Percentages == {10}
Limits == {MaxLimit}
\* Values of the groupSimilarTimeWindow dropdown that the model tries.
WindowOptions == {"10", "30"}

\* A string field that may be undefined: def is FALSE for undefined, s is
\* the text as a sequence of tokens, each token a piece of text that the
\* code's startsWith, substring, replace and split treat as a whole.
NoStr == [def |-> FALSE, s |-> <<>>]
Str(tokens) == [def |-> TRUE, s |-> tokens]
\* if (v): undefined and the empty string are falsy.
Truthy(v) == v.def /\ v.s # <<>>

\* The tokens the code looks for.
CDN == "https://cdn2-main.melvor.net/assets/media/"
MainCDN == "mainCDN:"
DL == "dl:"
StaticDir == "assets/media/main/"
\* The first parts of the references generateMediaRef builds, type and ':'.
Kinds == {"item:", "skill:", "currency:", "mastery:", "mark:", "static:"}

\* Raw events the capture layer emits: GP gains carry a quantity, a
\* message derived from it and the static coin image with its reference;
\* info notifications carry a free text, the caller's customID and the
\* caller's media URL (here one outside the CDN), for which no reference is
\* built.
GpEvent(q, msg) ==
  [type |-> "AddGP", message |-> msg, quantity |-> q,
   media |-> Str(<<StaticDir, "coins.png">>),
   mediaRef |-> Str(<<"static:", "coins.png">>), customID |-> NoStr]
InfoEvent(msg) ==
  [type |-> "Info", message |-> msg, quantity |-> undefined,
   media |-> Str(<<StaticDir, "info.png">>), mediaRef |-> NoStr,
   customID |-> Str(<<"c1">>)]
Events ==
  { GpEvent(5, "+5 GP"), GpEvent(7, "+7 GP"), InfoEvent("i1"), InfoEvent("i2") }
StoreEvents == { GpEvent(5, "+5 GP"), InfoEvent("i1") }
\* Field updates passed to updateNotification.
Updates == { [message |-> "i2"] }

VARIABLES
  notifications,      \* this.notifications, newest first
  settings,           \* this.settings
  timeWindow,         \* the groupSimilarTimeWindow setting
  now,                \* the clock, Date.now()
  nextId,             \* ids handed out by the capture layer so far
  saveDebounceTimer,  \* this.saveDebounceTimer: a timer handle or null
  timers,             \* pending setTimeout timers: [id, due]
  saves,              \* saves awaiting compression: [backend, snapshot, ok]
  prunes,             \* eviction passes awaiting a measurement
  loads,              \* loads awaiting decompression
  characterStorage,   \* ctx.characterStorage item 'notifications'
  localStorage,       \* localStorage item of the current character
  lastOp,             \* history: the operation of the last step
  burst,              \* history: last debounced mutation and saves since
  calls,              \* history: public-method calls counted by the store runs
  codec,              \* a record on its way through optimize and reconstruct
  returned,           \* the list a caller holds from getNotifications
  capture,            \* the capture layer: count, callback, records handed on
  panel               \* the panel's display list over one timer tick

vars == <<notifications, settings, timeWindow, now, nextId, saveDebounceTimer,
          timers, saves, prunes, loads, characterStorage, localStorage,
          lastOp, burst, calls, codec, returned, capture, panel>>

\* ---------------------------------------------------------------- helpers
RemoveAt(s, i) == SubSeq(s, 1, i - 1) \o SubSeq(s, i + 1, Len(s))

\* Array.prototype.slice(0, n) for n >= 0.
Slice0(s, n) == SubSeq(s, 1, IF n < Len(s) THEN n ELSE Len(s))

Max(a, b) == IF a > b THEN a ELSE b

\* Number of characters of the decimal form of a non-negative integer.
RECURSIVE Digits(_)
Digits(n) == IF n < 10 THEN 1 ELSE 1 + Digits(n \div 10)

\* a > b in JavaScript: false whenever an operand is NaN.
JsGreater(a, b) == a # NaN /\ b # NaN /\ a > b

\* timeWindowSeconds * 1000: the dropdown's 'never' and 'always' are strings
\* that are no numbers, so their product is NaN.
TimeWindowMs(w) ==
  CASE w = "10" -> 10 * 1000
    [] w = "30" -> 30 * 1000
    [] OTHER -> NaN

\* settingsManager.getSetting('groupSimilar') ?? true: the settings manager
\* registers no such key, so the lookup is undefined and grouping is on.
groupSimilar == TRUE

\* String.prototype.startsWith(token).
StartsWith(t, token) == Len(t) >= 1 /\ t[1] = token

\* String.prototype.replace(from, to) with a string pattern: the first
\* occurrence only, wherever it is.
RECURSIVE Replace(_, _, _)
Replace(t, from, to) ==
  IF t = <<>> THEN <<>>
  ELSE IF Head(t) = from THEN <<to>> \o Tail(t)
  ELSE <<Head(t)>> \o Replace(Tail(t), from, to)

\* Number of characters of a text.
RECURSIVE TextLen(_)
TextLen(t) == IF t = <<>> THEN 0 ELSE Len(Head(t)) + TextLen(Tail(t))

\* Length of a message text.
MsgLen(m) == IF m \in {"i1", "i2"} THEN InfoMsgLen ELSE Len(m)

\* ------------------------------------------------- optimize / reconstruct
\* Outcomes of a lookup in the game's registries (getObjectByID(id)?.media):
\* the object's media, no such object, or an exception.
Found(url) == [kind |-> "found", media |-> url]
Missing == [kind |-> "missing", media |-> <<>>]
Throws == [kind |-> "throws", media |-> <<>>]

\* What a call returns or throws: threw is TRUE when it raised.
Returned(v) == [threw |-> FALSE, value |-> v]
Raised == [threw |-> TRUE, value |-> <<>>]

\* The switch of reconstructMedia on the reference's type, lk being the
\* outcome of the registry lookup it makes; static references need none.
LookupMedia(t, lk) ==
  IF t = <<>> \/ t[1] \notin Kinds THEN Returned(<<>>)
  ELSE IF t[1] = "static:" THEN Returned(<<StaticDir>> \o Tail(t))
  ELSE IF lk.kind = "throws" THEN Raised
  ELSE IF lk.kind = "found" THEN Returned(lk.media)
  ELSE Returned(<<>>)

\* Mutant: no try/catch around the lookup.
reconstructMedia_NoCatch(t, lk) ==
  IF t = <<>> THEN Returned(<<>>)
  ELSE IF StartsWith(t, DL)
  THEN LET urlPart == Tail(t)
       IN IF StartsWith(urlPart, MainCDN)
          THEN Returned(Replace(urlPart, MainCDN, CDN))
          ELSE Returned(urlPart)
  ELSE LookupMedia(t, lk)

\* reconstructMedia of the text t of a reference: the fallback form is
\* decoded, a symbolic reference is looked up inside try/catch.
reconstructMedia(t, lk) ==
  IF t = <<>> THEN Returned(<<>>)
  ELSE IF StartsWith(t, DL)
  THEN LET urlPart == Tail(t)
       IN IF StartsWith(urlPart, MainCDN)
          THEN Returned(Replace(urlPart, MainCDN, CDN))
          ELSE Returned(urlPart)
  ELSE LET r == LookupMedia(t, lk)
       IN IF r.threw THEN Returned(<<>>) ELSE r

\* The registry of the game the store runs in: the references the capture
\* layer builds for the modelled events are static, any other lookup finds
\* nothing.
GameLookup(t) == Missing

\* optimizeNotification: count and quantity are kept only when > 1; the
\* reference is kept, or built from the media URL in the fallback form;
\* media itself is not stored.
optimizeNotification(n) ==
  [id |-> n.id, timestamp |-> n.timestamp, type |-> n.type,
   message |-> n.message,
   count |-> IF n.count # undefined /\ n.count > 1 THEN n.count ELSE undefined,
   quantity |-> IF n.quantity # undefined /\ n.quantity > 1
                THEN n.quantity ELSE undefined,
   media |-> NoStr,
   mediaRef |-> IF Truthy(n.mediaRef) THEN n.mediaRef
                ELSE IF Truthy(n.media)
                THEN Str(<<DL>> \o Replace(n.media.s, CDN, MainCDN))
                ELSE NoStr,
   customID |-> IF Truthy(n.customID) THEN n.customID ELSE NoStr]

\* Mutant: the reference is kept whatever its form.
reconstructNotification_KeepFallback(st, lk) ==
  [id |-> st.id, timestamp |-> st.timestamp, type |-> st.type,
   message |-> st.message,
   count |-> IF st.count = undefined \/ st.count = 0 THEN 1 ELSE st.count,
   quantity |-> IF st.quantity = undefined \/ st.quantity = 0
                THEN 1 ELSE st.quantity,
   media |-> IF Truthy(st.mediaRef)
             THEN Str(reconstructMedia(st.mediaRef.s, lk).value)
             ELSE NoStr,
   mediaRef |-> IF Truthy(st.mediaRef) THEN st.mediaRef ELSE NoStr,
   customID |-> IF Truthy(st.customID) THEN st.customID ELSE NoStr]

\* reconstructNotification: stored.count || 1, stored.quantity || 1; media
\* rebuilt from the reference, the reference kept unless it is a fallback.
reconstructNotification(st, lk) ==
  [id |-> st.id, timestamp |-> st.timestamp, type |-> st.type,
   message |-> st.message,
   count |-> IF st.count = undefined \/ st.count = 0 THEN 1 ELSE st.count,
   quantity |-> IF st.quantity = undefined \/ st.quantity = 0
                THEN 1 ELSE st.quantity,
   media |-> IF Truthy(st.mediaRef)
             THEN Str(reconstructMedia(st.mediaRef.s, lk).value)
             ELSE NoStr,
   mediaRef |-> IF Truthy(st.mediaRef) /\ ~StartsWith(st.mediaRef.s, DL)
                THEN st.mediaRef ELSE NoStr,
   customID |-> IF Truthy(st.customID) THEN st.customID ELSE NoStr]

OptimizeAll(list) == [i \in 1..Len(list) |-> optimizeNotification(list[i])]
ReconstructAll(list) ==
  [i \in 1..Len(list) |->
     reconstructNotification(list[i], GameLookup(list[i].mediaRef.s))]

\* ------------------------------------------------------------ compression
\* JSON.stringify of one record: an undefined field is left out.
\* {"id":"","timestamp":,"type":"","message":""} is 45 characters,
\* ,"count": is 9 and ,"quantity": is 12; ,"media":"" is 11, ,"mediaRef":""
\* and ,"customID":"" are 14 each.
RecordJsonLen(r) ==
  45 + IdLen + TimestampLen + Len(r.type) + MsgLen(r.message)
  + (IF r.count = undefined THEN 0 ELSE 9 + Digits(r.count))
  + (IF r.quantity = undefined THEN 0 ELSE 12 + Digits(r.quantity))
  + (IF r.media.def THEN 11 + TextLen(r.media.s) ELSE 0)
  + (IF r.mediaRef.def THEN 14 + TextLen(r.mediaRef.s) ELSE 0)
  + (IF r.customID.def THEN 14 + TextLen(r.customID.s) ELSE 0)

RECURSIVE SumJsonLen(_)
SumJsonLen(list) ==
  IF list = <<>> THEN 0 ELSE RecordJsonLen(Head(list)) + SumJsonLen(Tail(list))

\* compress(data).compressed.length: the bytes of JSON.stringify(data), the
\* brackets, the records and the commas between them.
CompressedLength(list) ==
  2 + SumJsonLen(list) + Max(Len(list) - 1, 0)

\* ------------------------------------------------------- grouping on ingest
\* Mutant: the scan stops at the boundary itself (>= instead of >).
OutOfWindow_AtBoundary(nowMs, n, windowMs) ==
  windowMs # NaN /\ nowMs - n.timestamp >= windowMs

\* The scan's early exit: now - n.timestamp > timeWindowMs.
OutOfWindow(nowMs, n, windowMs) == JsGreater(nowMs - n.timestamp, windowMs)

\* Mutant: the message is not compared.
Matches_TypeOnly(n, e) == n.type = e.type

\* typeMatches && contentMatches, contentMatches being
\* hasQuantity || n.message === notification.message.
Matches(n, e) ==
  /\ n.type = e.type
  /\ (e.quantity # undefined \/ n.message = e.message)

\* The for loop of addNotification from index i on: the index of the first
\* match, 0 when the scan ends or breaks without one.
RECURSIVE ScanFrom(_, _, _, _, _)
ScanFrom(list, i, e, nowMs, windowMs) ==
  IF i > Len(list) THEN 0
  ELSE IF OutOfWindow(nowMs, list[i], windowMs) THEN 0
  ELSE IF Matches(list[i], e) THEN i
  ELSE ScanFrom(list, i + 1, e, nowMs, windowMs)

existingIndex(list, e, nowMs, windowMs) ==
  IF groupSimilar THEN ScanFrom(list, 1, e, nowMs, windowMs) ELSE 0

\* Mutant: the quantity is replaced by the event's, not accumulated.
MergeInto_Overwrite(existing, e, nowMs) ==
  [existing EXCEPT
     !.count = @ + 1,
     !.timestamp = nowMs,
     !.quantity = IF e.quantity # undefined THEN e.quantity ELSE @]

\* Mutant: the count of the merged record is left as it was.
MergeInto_KeepCount(existing, e, nowMs) ==
  [existing EXCEPT
     !.timestamp = nowMs,
     !.quantity = IF e.quantity # undefined
                  THEN (IF @ = undefined THEN 0 ELSE @) + e.quantity
                  ELSE @]

\* Mutant: the merged record takes the message of the event.
MergeInto_TakeMessage(existing, e, nowMs) ==
  [existing EXCEPT
     !.count = (IF @ = undefined \/ @ = 0 THEN 1 ELSE @) + 1,
     !.timestamp = nowMs,
     !.message = e.message,
     !.quantity = IF e.quantity # undefined
                  THEN (IF @ = undefined THEN 0 ELSE @) + e.quantity
                  ELSE @]

\* The merged record: count + 1, timestamp = now, quantity accumulated
\* ((existing.quantity || 0) + notification.quantity) when the event has one.
MergeInto(existing, e, nowMs) ==
  [existing EXCEPT
     !.count = (IF @ = undefined \/ @ = 0 THEN 1 ELSE @) + 1,
     !.timestamp = nowMs,
     !.quantity = IF e.quantity # undefined
                  THEN (IF @ = undefined THEN 0 ELSE @) + e.quantity
                  ELSE @]

\* Mutant: the merged record stays where it was.
MoveToFront_InPlace(list, i, merged) == [list EXCEPT ![i] = merged]

\* splice(existingIndex, 1) then unshift(existing).
MoveToFront(list, i, merged) == <<merged>> \o RemoveAt(list, i)

\* Mutant: the 'added' notification is dispatched on both paths.
ChangeEvent_AlwaysAdded(merged, rec) ==
  <<[name |-> "activity-monitor-notification-added", id |-> rec.id]>>

\* The change notifications of one addNotification call, in order, each with
\* the id of the record in its detail: one 'updated' with the surviving
\* record on the merging path, one 'added' with the new record otherwise.
ChangeEvent(merged, rec) ==
  <<[name |-> IF merged THEN "activity-monitor-notification-updated"
              ELSE "activity-monitor-notification-added",
     id |-> rec.id]>>

\* Mutant: the change notification is dispatched before the sequence is
\* updated.
SeenAtDispatch_BeforeUpdate(before, after) == before

\* The sequence a listener reads while the change notification is being
\* dispatched: dispatchEvent runs its listeners synchronously, after the
\* unshift (and the truncation) and before debouncedSave.
SeenAtDispatch(before, after) == after

\* The record added when nothing matches: count = 1, then unshift.
NewRecord(e, id, ts) ==
  [id |-> id, timestamp |-> ts, type |-> e.type, message |-> e.message,
   count |-> 1, quantity |-> e.quantity,
   media |-> e.media, mediaRef |-> e.mediaRef, customID |-> e.customID]

\* ---------------------------------------------------------------- eviction
\* Mutant: the oldest maxCount records are kept (slice(-maxCount)).
pruneToCount_KeepOldest(list, maxCount) ==
  IF Len(list) <= maxCount THEN list
  ELSE SubSeq(list, Len(list) - maxCount + 1, Len(list))

pruneToCount(list, maxCount) ==
  IF Len(list) <= maxCount THEN list ELSE Slice0(list, maxCount)

IsPercentage(st) ==
  st.mode = "character-save" /\ st.characterSaveType = "percentage"

\* Mutant: nothing is truncated before addNotification returns.
PruneNow_Deferred(list, st) == list

\* The part of pruneIfNeeded that runs before its first suspension:
\* pruneToCount has no await before its slice, pruneToPercentage suspends on
\* its first measurement before it removes anything.
PruneNow(list, st) ==
  CASE st.mode = "character-save" /\ st.characterSaveType # "percentage" ->
         pruneToCount(list, st.characterSaveLineCount)
    [] st.mode = "local-storage" ->
         pruneToCount(list, st.localStorageLineCount)
    [] OTHER -> list

\* Math.floor(MAX_CHARACTER_SAVE_BYTES * (characterSavePercentage / 100)).
MaxBytes(st) == (MAX_CHARACTER_SAVE_BYTES * st.characterSavePercentage) \div 100

\* Least k such that the sequence without its k oldest records measures
\* within maxBytes; the whole length when no k does.
MinPops(list, maxBytes) ==
  LET fits(k) == CompressedLength(SubSeq(list, 1, Len(list) - k)) <= maxBytes
  IN IF \E k \in 0..Len(list) : fits(k)
     THEN CHOOSE k \in 0..Len(list) : fits(k) /\ \A j \in 0..(k - 1) : ~fits(j)
     ELSE Len(list)

\* pruneToPercentage up to its first await: the budget and the measurement
\* of the sequence as it is at the call; ok is whether compress resolves.
\* addNotification does not await the pass: it has returned to its caller
\* by the time the measurement resolves or rejects (addReturned).
\* need (history) is the least number of oldest records whose removal
\* brings the measured size of that sequence within the budget, all of them
\* when even the empty sequence exceeds it.
FirstMeasure(list, st, ok) ==
  [maxBytes |-> MaxBytes(st), size |-> CompressedLength(list), ok |-> ok,
   pruneCount |-> 0, stage |-> "first", addReturned |-> TRUE,
   need |-> MinPops(list, MaxBytes(st))]

\* Mutant: the sequence is measured again after every tenth pop.
PopsToNextMeasure_EveryTen(len, pruneCount) ==
  IF len < 10 - (pruneCount % 10) THEN len ELSE 10 - (pruneCount % 10)

\* Mutant: the loop body removes nothing.
PopsToNextMeasure_None(len, pruneCount) == 0

\* Records the while loop pops before its next measurement: it pops until
\* pruneCount % 5 = 0 or the sequence is empty.
PopsToNextMeasure(len, pruneCount) ==
  IF len < PruneBatch - (pruneCount % PruneBatch)
  THEN len ELSE PruneBatch - (pruneCount % PruneBatch)

\* ------------------------------------------------------------ persistence
NoItem == [present |-> FALSE, data |-> <<>>]
Item(list) == [present |-> TRUE, data |-> list]

FreshHandle(ts, h) ==
  CHOOSE k \in 1..(Cardinality(ts) + 2) :
    /\ k # h
    /\ \A t \in ts : t.id # k
    /\ \A j \in 1..(k - 1) : j = h \/ \E t \in ts : t.id = j

\* Mutant: no timer is set.
debouncedSave_NoTimer(ts, h, at) == [timers |-> ts, handle |-> h]

\* Mutant: the pending timer is not cancelled.
debouncedSave_NoCancel(ts, h, at) ==
  LET k == FreshHandle(ts, null)
  IN [timers |-> ts \cup {[id |-> k, due |-> at + SAVE_DEBOUNCE_MS]},
      handle |-> k]

\* debouncedSave at instant at: clearTimeout of the pending handle, then a
\* new timer whose handle is stored in saveDebounceTimer.
debouncedSave(ts, h, at) ==
  LET kept == IF h # null THEN {t \in ts : t.id # h} ELSE ts
      k == FreshHandle(kept, null)
  IN [timers |-> kept \cup {[id |-> k, due |-> at + SAVE_DEBOUNCE_MS]},
      handle |-> k]

\* Mutant: memory-only saves to localStorage as local-storage does.
StartSave_AlwaysLocal(list, st, ok) ==
  IF st.mode = "character-save"
  THEN <<[backend |-> "character", snapshot |-> OptimizeAll(list), ok |-> ok]>>
  ELSE <<[backend |-> "local", snapshot |-> OptimizeAll(list), ok |-> ok]>>

\* save() up to its first await: the backend is chosen by the mode and the
\* snapshot is optimized at the call; memory-only starts nothing.
StartSave(list, st, ok) ==
  CASE st.mode = "character-save" ->
         <<[backend |-> "character", snapshot |-> OptimizeAll(list), ok |-> ok]>>
    [] st.mode = "local-storage" ->
         <<[backend |-> "local", snapshot |-> OptimizeAll(list), ok |-> ok]>>
    [] OTHER -> <<>>

CanStartSave(st) == st.mode = "memory-only" \/ Len(saves) < MaxSaves

\* ----------------------------------------------------------------- history
NoEvent ==
  [type |-> "", message |-> "", quantity |-> undefined,
   media |-> NoStr, mediaRef |-> NoStr, customID |-> NoStr]
\* op: the step taken; for addNotification, merged, the event ev, the change
\* notification dispatched and the age of the record merged into; for a
\* finished load, whether it was called right after clearAll returned;
\* dispatched, the change notifications of the step in order; failed and
\* rejected, whether something inside the call threw and whether the call
\* itself threw or rejected; seen, the sequence as the listeners of the
\* change notification read it.
Op(name) ==
  [op |-> name, merged |-> FALSE, ev |-> NoEvent, event |-> "none",
   age |-> undefined, afterClear |-> FALSE,
   dispatched |-> <<>>, failed |-> FALSE, rejected |-> FALSE, seen |-> <<>>]

\* burst after a mutation that called debouncedSave at instant at: coalesced
\* counts the mutations that found a timer pending and replaced it.
Mutated(at) ==
  [last |-> at, saves |-> 0,
   coalesced |-> IF timers = {} THEN 0 ELSE 1]

\* -------------------------------------------------------------------- Init
\* No record is being converted; no caller holds a list.
NoCodec == [stage |-> "none"]
NoHandle == [held |-> FALSE, array |-> "none", items |-> <<>>]
\* The capture layer has handled nothing.
NoCapture == [stage |-> "none"]
\* The panel has rendered nothing.
NoPanel == [stage |-> "none"]

SettingsChoices ==
  { [mode |-> "memory-only", characterSaveType |-> "percentage",
     characterSavePercentage |-> 20, characterSaveLineCount |-> 1,
     localStorageLineCount |-> 1] }
  \cup
  { [mode |-> "local-storage", characterSaveType |-> "percentage",
     characterSavePercentage |-> 20, characterSaveLineCount |-> 1,
     localStorageLineCount |-> l] : l \in Limits }
  \cup
  { [mode |-> "character-save", characterSaveType |-> "line-count",
     characterSavePercentage |-> 20, characterSaveLineCount |-> l,
     localStorageLineCount |-> 1] : l \in Limits }
  \cup
  { [mode |-> "character-save", characterSaveType |-> "percentage",
     characterSavePercentage |-> p, characterSaveLineCount |-> 1,
     localStorageLineCount |-> 1] : p \in Percentages }

Init ==
  /\ notifications = <<>>
  /\ settings \in SettingsChoices
  /\ timeWindow \in WindowOptions
  /\ now = 0
  /\ nextId = 0
  /\ saveDebounceTimer = null
  /\ timers = {}
  /\ saves = <<>>
  /\ prunes = <<>>
  /\ loads = <<>>
  /\ characterStorage = NoItem
  /\ localStorage = NoItem
  /\ lastOp = Op("init")
  /\ burst = [last |-> undefined, saves |-> 0, coalesced |-> 0]
  /\ calls = 0
  /\ codec = NoCodec
  /\ returned = NoHandle
  /\ capture = NoCapture
  /\ panel = NoPanel

\* Mutant: the list holds the store's own record objects.
CopyRecord_SameObject(n) == [shared |-> TRUE, rec |-> n]

\* ({ ...n }): a new object with the values of the record's fields, all of
\* them numbers and strings; shared tells whether the object is the store's.
CopyRecord(n) == [shared |-> FALSE, rec |-> n]

\* What getNotifications hands to its caller: a new array (map) of copies.
Handle ==
  [held |-> TRUE, array |-> "new",
   items |-> [i \in 1..Len(notifications) |-> CopyRecord(notifications[i])]]

\* getNotifications: the records the caller reads in the returned list.
getNotifications == [i \in 1..Len(notifications) |-> Handle.items[i].rec]

\* ----------------------------------------------------------------- actions
\* The clock advances.
TickIn(T) ==
  /\ \E t \in T : t > now /\ now' = t
  /\ lastOp' = Op("tick")
  /\ UNCHANGED <<panel, capture, codec, returned,
                 calls, notifications, settings, timeWindow, nextId,
                 saveDebounceTimer, timers, saves, prunes, loads,
                 characterStorage, localStorage, burst>>

Tick == TickIn(Times)

\* The capture layer builds a record at instant now and hands it to
\* addNotification, which reads the clock again at instant at; maxPasses
\* caps the eviction passes that are suspended at once.
AddNotificationUpTo(e, at, ok, maxPasses) ==
  LET windowMs == TimeWindowMs(timeWindow)
      idx == existingIndex(notifications, e, at, windowMs)
      deb == debouncedSave(timers, saveDebounceTimer, at)
  IN /\ at >= now /\ at - now <= MaxCaptureLag
     /\ now' = at
     /\ IF idx # 0
        THEN \* merge into the existing record
             /\ notifications[idx].count < MaxCount
             /\ ok
             /\ notifications' =
                  MoveToFront(notifications, idx,
                              MergeInto(notifications[idx], e, at))
             /\ UNCHANGED <<nextId, prunes>>
             /\ lastOp' = [Op("add") EXCEPT
                             !.merged = TRUE, !.ev = e, !.event = "updated",
                             !.age = at - notifications[idx].timestamp,
                             !.seen = SeenAtDispatch(notifications,
                                                     notifications'),
                             !.dispatched =
                               ChangeEvent(TRUE, notifications[idx])]
        ELSE \* a new record, then pruneIfNeeded without await
             /\ nextId < MaxAdds
             /\ nextId' = nextId + 1
             /\ LET added == <<NewRecord(e, nextId + 1, now)>> \o notifications
                IN /\ notifications' = PruneNow(added, settings)
                   /\ IF IsPercentage(settings)
                      THEN /\ Len(prunes) < maxPasses
                           /\ prunes' = Append(prunes,
                                               FirstMeasure(added, settings, ok))
                      ELSE /\ ok
                           /\ UNCHANGED prunes
             /\ lastOp' = [Op("add") EXCEPT
                             !.ev = e, !.event = "added",
                             !.seen = SeenAtDispatch(notifications,
                                                     notifications'),
                             !.dispatched =
                               ChangeEvent(FALSE, NewRecord(e, nextId + 1, now))]
     /\ timers' = deb.timers
     /\ saveDebounceTimer' = deb.handle
     /\ burst' = Mutated(at)
     /\ UNCHANGED <<panel, capture, codec, returned,
                    settings, timeWindow, saves, loads, characterStorage,
                    localStorage>>

\* addNotification with at most MaxPrunes eviction passes running at once.
AddNotification(e, at, ok) == AddNotificationUpTo(e, at, ok, MaxPrunes)

Add ==
  /\ \E e \in Events, at \in Times, ok \in BOOLEAN : AddNotification(e, at, ok)
  /\ UNCHANGED calls

\* An eviction pass resumes after an awaited measurement.
PruneResume(i, ok) ==
  LET p == prunes[i]
      len == Len(notifications)
      k == PopsToNextMeasure(len, p.pruneCount)
      left == SubSeq(notifications, 1, len - k)
  IN /\ i \in 1..Len(prunes)
     /\ IF ~p.ok
        THEN \* compress threw: the pass rejects, nothing awaits its promise
             /\ ok
             /\ prunes' = RemoveAt(prunes, i)
             /\ lastOp' = Op("prune-rejected")
             /\ UNCHANGED notifications
        ELSE IF p.size <= p.maxBytes \/ len = 0
        THEN \* within the limit, or nothing left to remove
             /\ ok
             /\ prunes' = RemoveAt(prunes, i)
             /\ lastOp' = Op("prune-done")
             /\ UNCHANGED notifications
        ELSE \* pop up to the next measurement, then measure again
             /\ notifications' = left
             /\ prunes' = [prunes EXCEPT ![i] =
                             [p EXCEPT !.size = CompressedLength(left),
                                       !.ok = ok,
                                       !.pruneCount = @ + k,
                                       !.stage = "loop"]]
             /\ lastOp' = Op("prune-pop")
     /\ UNCHANGED <<panel, capture, codec, returned,
                    calls, settings, timeWindow, now, nextId, saveDebounceTimer,
                    timers, saves, loads, characterStorage, localStorage,
                    burst>>

Prune == \E i \in 1..Len(prunes), ok \in BOOLEAN : PruneResume(i, ok)

\* The debounce timer's callback: this.save(), then the handle is cleared.
TimerFire(t, ok) ==
  /\ t \in timers
  /\ now >= t.due
  /\ CanStartSave(settings)
  /\ (settings.mode = "memory-only" => ok)
  /\ timers' = timers \ {t}
  /\ saves' = saves \o StartSave(notifications, settings, ok)
  /\ saveDebounceTimer' = null
  /\ burst' = [burst EXCEPT !.saves = @ + 1]
  /\ lastOp' = Op("timer")
  /\ UNCHANGED <<panel, capture, codec, returned,
                 calls, notifications, settings, timeWindow, now, nextId, prunes,
                 loads, characterStorage, localStorage>>

Timer == \E t \in timers, ok \in BOOLEAN : TimerFire(t, ok)

\* A save resumes after compress: it writes its snapshot to the backend it
\* chose when it started; a failed compress is caught and logged by save().
SaveComplete(i) ==
  LET s == saves[i]
  IN /\ i \in 1..Len(saves)
     /\ saves' = RemoveAt(saves, i)
     /\ characterStorage' =
          IF s.ok /\ s.backend = "character" THEN Item(s.snapshot)
          ELSE characterStorage
     /\ localStorage' =
          IF s.ok /\ s.backend = "local" THEN Item(s.snapshot)
          ELSE localStorage
     /\ lastOp' = Op("save-done")
     /\ UNCHANGED <<panel, capture, codec, returned,
                    calls, notifications, settings, timeWindow, now, nextId,
                    saveDebounceTimer, timers, prunes, loads, burst>>

SaveDone == \E i \in 1..Len(saves) : SaveComplete(i)

\* ----------------------------------------------------------- specifications
\* The store under ingest alone: addNotification calls, the clock, and the
\* asynchronous steps the calls start.
NextIngest ==
  \/ Add
  \/ Tick
  \/ Prune

SpecIngest == Init /\ [][NextIngest]_vars

\* Ingest in the runs where compression never fails.
AddOk ==
  /\ \E e \in Events, at \in Times : AddNotification(e, at, TRUE)
  /\ UNCHANGED calls

PruneOk == \E i \in 1..Len(prunes) : PruneResume(i, TRUE)

NextNoFail ==
  \/ AddOk
  \/ Tick
  \/ PruneOk

SpecNoFail == Init /\ [][NextNoFail]_vars

\* -------------------------------------------------- the other store methods
StoreTick == TickIn(StoreTimes)

Called == calls < MaxCalls /\ calls' = calls + 1

StoreAdd ==
  /\ nextId < MaxStoreAdds
  /\ \E e \in StoreEvents, ok \in BOOLEAN : AddNotification(e, now, ok)
  /\ Called

IndexOfId(list, id) ==
  IF \E i \in 1..Len(list) : list[i].id = id
  THEN CHOOSE i \in 1..Len(list) :
         list[i].id = id /\ \A j \in 1..(i - 1) : list[j].id # id
  ELSE 0

\* ({ ...n, ...updates }): the fields of the update replace the record's.
Spread(n, u) == [f \in DOMAIN n |-> IF f \in DOMAIN u THEN u[f] ELSE n[f]]

\* updateNotification: the update is applied and a save scheduled only when
\* the id is found.
UpdateNotification(id, u) ==
  LET i == IndexOfId(notifications, id)
      deb == debouncedSave(timers, saveDebounceTimer, now)
  IN /\ IF i # 0
        THEN /\ notifications' =
                  [notifications EXCEPT ![i] = Spread(@, u)]
             /\ timers' = deb.timers
             /\ saveDebounceTimer' = deb.handle
             /\ burst' = Mutated(now)
             /\ lastOp' = [Op("update") EXCEPT !.merged = TRUE]
        ELSE /\ UNCHANGED <<notifications, timers, saveDebounceTimer, burst>>
             /\ lastOp' = Op("update")
     /\ UNCHANGED <<panel, capture, codec, returned,
                    settings, timeWindow, now, nextId, saves, prunes, loads,
                    characterStorage, localStorage>>

Update ==
  /\ \E id \in 1..MaxStoreAdds, u \in Updates : UpdateNotification(id, u)
  /\ Called

\* Updates that carry a count: updateNotification takes any partial record.
CountUpdates == {[count |-> 0], [count |-> 2]}

\* An update that carries a timestamp older than every grouping window.
TimeUpdates == {[timestamp |-> 0 - 30001]}

UpdateAny ==
  /\ \E id \in 1..MaxStoreAdds, u \in Updates \cup CountUpdates \cup TimeUpdates :
       UpdateNotification(id, u)
  /\ Called

\* removeNotification: filter by id, then always a debounced save.
RemoveNotification(id) ==
  LET deb == debouncedSave(timers, saveDebounceTimer, now)
  IN /\ notifications' = SelectSeq(notifications, LAMBDA n : n.id # id)
     /\ timers' = deb.timers
     /\ saveDebounceTimer' = deb.handle
     /\ burst' = Mutated(now)
     /\ lastOp' = Op("remove")
     /\ UNCHANGED <<panel, capture, codec, returned,
                    settings, timeWindow, now, nextId, saves, prunes, loads,
                    characterStorage, localStorage>>

Remove == (\E id \in 1..MaxStoreAdds : RemoveNotification(id)) /\ Called

\* clearAll: the sequence is emptied and save() is called at once; the
\* debounce timer is left as it is.
ClearAll(ok) ==
  /\ CanStartSave(settings)
  /\ (settings.mode = "memory-only" => ok)
  /\ notifications' = <<>>
  /\ saves' = saves \o StartSave(<<>>, settings, ok)
  /\ lastOp' = Op("clearAll")
  /\ UNCHANGED <<panel, capture, codec, returned,
                 settings, timeWindow, now, nextId, saveDebounceTimer, timers,
                 prunes, loads, characterStorage, localStorage, burst>>

Clear == (\E ok \in BOOLEAN : ClearAll(ok)) /\ Called

\* The item load() reads, synchronously at the call, for the current mode.
BackendItem(st) ==
  CASE st.mode = "character-save" -> characterStorage
    [] st.mode = "local-storage" -> localStorage
    [] OTHER -> NoItem

\* What load() can meet: a payload that decodes, a backend whose getItem
\* throws, an envelope that JSON.parse or atob rejects at once, and a
\* payload that fails to decompress or to parse after the await.
LoadOutcomes == {"ok", "read-throws", "bad-envelope", "bad-payload"}

\* Mutant: the error leaves load() and the sequence stays as it is.
LoadFailure_Propagates(list) == [rejected |-> TRUE, list |-> list]

\* The catch blocks of load, loadFromCharacterStorage and
\* loadFromLocalStorage: the error is logged and the sequence emptied.
LoadFailure(list) == [rejected |-> FALSE, list |-> <<>>]

\* load() up to its first await: memory-only and a missing item empty the
\* sequence at once and so does a failure before the await, otherwise the
\* item read now is decompressed later.
LoadStart(out) ==
  LET item == BackendItem(settings)
      caught == LoadFailure(notifications)
      after == lastOp.op = "clearAll"
  IN /\ IF settings.mode = "memory-only"
        THEN /\ out = "ok"
             /\ notifications' = <<>>
             /\ lastOp' = [Op("load") EXCEPT !.afterClear = after]
             /\ UNCHANGED loads
        ELSE IF settings.mode \notin Modes
        THEN \* no case of the switch matches: nothing is read or assigned
             /\ out = "ok"
             /\ lastOp' = [Op("load") EXCEPT !.afterClear = after]
             /\ UNCHANGED <<notifications, loads>>
        ELSE IF out = "read-throws" \/ (item.present /\ out = "bad-envelope")
        THEN /\ notifications' = caught.list
             /\ lastOp' = [Op("load") EXCEPT !.afterClear = after,
                                             !.failed = TRUE,
                                             !.rejected = caught.rejected]
             /\ UNCHANGED loads
        ELSE IF ~item.present
        THEN /\ out = "ok"
             /\ notifications' = <<>>
             /\ lastOp' = [Op("load") EXCEPT !.afterClear = after]
             /\ UNCHANGED loads
        ELSE /\ Len(loads) < MaxLoads
             /\ loads' = Append(loads, [data |-> item.data, ok |-> out = "ok",
                                        afterClear |-> after])
             /\ lastOp' = [Op("load") EXCEPT !.afterClear = after]
             /\ UNCHANGED notifications
     /\ UNCHANGED <<panel, capture, codec, returned, settings, timeWindow, now, nextId,
                    saveDebounceTimer, timers, saves, prunes,
                    characterStorage, localStorage, burst>>

Load == (\E out \in LoadOutcomes : LoadStart(out)) /\ Called

\* A load resumes after decompress: the sequence is replaced by the
\* reconstructed records, or emptied when decompression failed.
LoadComplete(i) ==
  LET l == loads[i]
      caught == LoadFailure(notifications)
  IN /\ i \in 1..Len(loads)
     /\ loads' = RemoveAt(loads, i)
     /\ notifications' = IF l.ok THEN ReconstructAll(l.data) ELSE caught.list
     /\ lastOp' = [Op("load-done") EXCEPT
                     !.afterClear = l.afterClear,
                     !.failed = ~l.ok,
                     !.rejected = IF l.ok THEN FALSE ELSE caught.rejected]
     /\ UNCHANGED <<panel, capture, codec, returned,
                    calls, settings, timeWindow, now, nextId,
                    saveDebounceTimer, timers, saves, prunes,
                    characterStorage, localStorage, burst>>

LoadDone == \E i \in 1..Len(loads) : LoadComplete(i)

\* Mutant: save() runs under the settings as they were before the merge.
SettingsAtSave_Old(old, merged) == old

\* The settings save() reads inside updateSettings: this.settings has been
\* assigned the merged object before save() is called.
SettingsAtSave(old, merged) == merged

\* updateSettings({mode}): the settings are merged and, when the mode is
\* different from the one before, save() is called at once; the debounce
\* timer is not involved.
UpdateMode(mode, ok) ==
  LET st == [settings EXCEPT !.mode = mode]
      at == SettingsAtSave(settings, st)
  IN /\ settings' = st
     /\ IF mode # settings.mode
        THEN /\ CanStartSave(at)
             /\ (at.mode = "memory-only" => ok)
             /\ saves' = saves \o StartSave(notifications, at, ok)
        ELSE /\ ok
             /\ UNCHANGED saves
     /\ lastOp' = Op("updateSettings")
     /\ UNCHANGED <<panel, capture, codec, returned,
                    notifications, timeWindow, now, nextId, saveDebounceTimer,
                    timers, prunes, loads, characterStorage, localStorage,
                    burst>>

\* updateSettings({characterSaveType}): merged, no save.
UpdateSaveType(type) ==
  /\ type # settings.characterSaveType
  /\ settings' = [settings EXCEPT !.characterSaveType = type]
  /\ lastOp' = Op("updateSettings")
  /\ UNCHANGED <<panel, capture, codec, returned,
                 notifications, timeWindow, now, nextId, saveDebounceTimer,
                 timers, saves, prunes, loads, characterStorage, localStorage,
                 burst>>

UpdateSettings ==
  /\ \/ \E mode \in Modes, ok \in BOOLEAN : UpdateMode(mode, ok)
     \/ \E type \in SaveTypes : UpdateSaveType(type)
  /\ Called

\* A line count below the ones of Init: the settings page offers several
\* line counts, scaled down here as Limits is.
LowerLimits == {1}

\* updateSettings({key: value}) for one of the three limits: the settings
\* are merged; nothing is saved and pruneIfNeeded is not called.
UpdateLimit(key, value) ==
  /\ settings' = [settings EXCEPT ![key] = value]
  /\ lastOp' = Op("updateLimit")
  /\ UNCHANGED <<panel, capture, codec, returned,
                 notifications, timeWindow, now, nextId, saveDebounceTimer,
                 timers, saves, prunes, loads, characterStorage, localStorage,
                 burst>>

UpdateLimits ==
  /\ \/ \E l \in LowerLimits \cup Limits :
          \/ UpdateLimit("characterSaveLineCount", l)
          \/ UpdateLimit("localStorageLineCount", l)
     \/ \E p \in Percentages :
          UpdateLimit("characterSavePercentage", p)
  /\ Called

\* The whole store: every public method and every asynchronous step.
Next ==
  \/ StoreAdd
  \/ StoreTick
  \/ Prune
  \/ Timer
  \/ SaveDone
  \/ Update
  \/ Remove
  \/ Clear
  \/ Load
  \/ LoadDone
  \/ UpdateSettings

Spec == Init /\ [][Next]_vars

\* The store under its mutating methods and load, with the saves that give
\* load something to read; updates may carry any field.
NextMutate ==
  \/ StoreAdd
  \/ StoreTick
  \/ Timer
  \/ SaveDone
  \/ UpdateAny
  \/ Remove
  \/ Clear
  \/ Load
  \/ LoadDone

SpecMutate == Init /\ [][NextMutate]_vars

\* The mutating methods, the debounced and immediate saves and the eviction
\* pass, in the runs where every compression resolves.
StoreAddOk ==
  /\ nextId < MaxStoreAdds
  /\ \E e \in StoreEvents : AddNotification(e, now, TRUE)
  /\ Called

TimerOk == \E t \in timers : TimerFire(t, TRUE)

ClearOk == ClearAll(TRUE) /\ Called

NextQuiet ==
  \/ StoreAddOk
  \/ StoreTick
  \/ PruneOk
  \/ TimerOk
  \/ SaveDone
  \/ Update
  \/ Remove
  \/ ClearOk

SpecQuiet == Init /\ [][NextQuiet]_vars

\* One size-bounded eviction pass over a long sequence: the store holds n
\* records of earlier sessions, each older than the grouping window, under
\* a percentage that may leave them over the budget (the sequence grew in
\* another mode or under a higher percentage); one add starts the pass.
PreloadedRecord(k) ==
  NewRecord(GpEvent(5, "+5 GP"), 100 + k, 0 - k * 30001)

Preloaded(n) == [k \in 1..n |-> PreloadedRecord(k)]

EvictPercentages == {0, 10, 20}

InitEvict ==
  /\ \E n \in 0..MaxPreloaded : notifications = Preloaded(n)
  /\ \E p \in EvictPercentages :
       settings = [mode |-> "character-save", characterSaveType |-> "percentage",
                   characterSavePercentage |-> p, characterSaveLineCount |-> 1,
                   localStorageLineCount |-> 1]
  /\ timeWindow \in WindowOptions
  /\ now = 0
  /\ nextId = 0
  /\ saveDebounceTimer = null
  /\ timers = {}
  /\ saves = <<>>
  /\ prunes = <<>>
  /\ loads = <<>>
  /\ characterStorage = NoItem
  /\ localStorage = NoItem
  /\ lastOp = Op("init")
  /\ burst = [last |-> undefined, saves |-> 0, coalesced |-> 0]
  /\ calls = 0
  /\ codec = NoCodec
  /\ returned = NoHandle
  /\ capture = NoCapture
  /\ panel = NoPanel

EvictAdd ==
  /\ nextId = 0
  /\ AddNotification(InfoEvent("i1"), now, TRUE)
  /\ UNCHANGED calls

NextEvict ==
  \/ EvictAdd
  \/ PruneOk

SpecEvict == InitEvict /\ [][NextEvict]_vars

\* Every awaited measurement resolves and its continuation runs.
SpecEvictFair == SpecEvict /\ WF_vars(PruneOk)

\* The store under a mode that is none of the three: the settings event
\* carries whatever its sender put in detail.mode.
InvalidModes == {"cloud"}

SetInvalidMode ==
  /\ \E mode \in InvalidModes : UpdateMode(mode, TRUE)
  /\ Called

NextInvalid ==
  \/ StoreAdd
  \/ StoreTick
  \/ Prune
  \/ Timer
  \/ SaveDone
  \/ Clear
  \/ Load
  \/ LoadDone
  \/ SetInvalidMode

SpecInvalid == Init /\ [][NextInvalid]_vars

\* The store under settings changes: ingest, the debounced save, and the
\* three kinds of settings update.
NextSettings ==
  \/ StoreAdd
  \/ StoreTick
  \/ Prune
  \/ Timer
  \/ SaveDone
  \/ UpdateSettings
  \/ UpdateLimits

SpecSettings == Init /\ [][NextSettings]_vars

\* The store in memory-only mode, with or without a payload left in
\* character storage by an earlier session in character-save mode.
Persisted == <<optimizeNotification(NewRecord(GpEvent(5, "+5 GP"), 0, 0))>>

InitVolatile ==
  /\ notifications = <<>>
  /\ settings \in {st \in SettingsChoices : st.mode = "memory-only"}
  /\ timeWindow \in WindowOptions
  /\ now = 0
  /\ nextId = 0
  /\ saveDebounceTimer = null
  /\ timers = {}
  /\ saves = <<>>
  /\ prunes = <<>>
  /\ loads = <<>>
  /\ characterStorage \in {NoItem, Item(Persisted)}
  /\ localStorage \in {NoItem, Item(Persisted)}
  /\ lastOp = Op("init")
  /\ burst = [last |-> undefined, saves |-> 0, coalesced |-> 0]
  /\ calls = 0
  /\ codec = NoCodec
  /\ returned = NoHandle
  /\ capture = NoCapture
  /\ panel = NoPanel

\* Every method that mutates, saves or loads; the steps that resume a save,
\* a load or an eviction pass are left out because none is ever pending
\* (C24 has saves and loads empty; prunes is empty outside character-save).
NextVolatile ==
  \/ StoreAdd
  \/ StoreTick
  \/ Timer
  \/ Update
  \/ Remove
  \/ Clear
  \/ Load

SpecVolatile == InitVolatile /\ [][NextVolatile]_vars

\* ------------------------------------------------- a caller and its list
\* A caller calls getNotifications and keeps the list.
Get ==
  /\ returned' = Handle
  /\ lastOp' = Op("get")
  /\ Called
  /\ UNCHANGED <<panel, capture,
                 notifications, settings, timeWindow, now, nextId,
                 saveDebounceTimer, timers, saves, prunes, loads,
                 characterStorage, localStorage, burst, codec>>

\* Values a caller writes into a field of a record it holds.
Writes == {"count", "timestamp", "message"}
Written(rec, f) ==
  CASE f = "count" -> [rec EXCEPT !.count = 0]
    [] f = "timestamp" -> [rec EXCEPT !.timestamp = 99999]
    [] OTHER -> [rec EXCEPT !.message = "x"]

\* The caller overwrites a field of the i-th record of its list: the write
\* lands in the store's record when the object is the store's own.
CallerWrites(i, f) ==
  LET it == returned.items[i]
      w == Written(it.rec, f)
  IN /\ returned.held /\ i \in 1..Len(returned.items)
     /\ w # it.rec
     /\ returned' = [returned EXCEPT !.items[i].rec = w]
     /\ notifications' =
          IF it.shared
          THEN [j \in 1..Len(notifications) |->
                  IF notifications[j].id = it.rec.id
                  THEN Written(notifications[j], f) ELSE notifications[j]]
          ELSE notifications
     /\ lastOp' = Op("caller-write")
     /\ UNCHANGED <<panel, capture,
                    settings, timeWindow, now, nextId, saveDebounceTimer,
                    timers, saves, prunes, loads, characterStorage,
                    localStorage, burst, calls, codec>>

CallerWrite ==
  \E i \in 1..Len(returned.items), f \in Writes : CallerWrites(i, f)

\* The caller removes the first element of its list (shift) or reverses the
\* list in place: the store's array changes when the list is that array.
CallerRearranges(how) ==
  LET items == IF how = "shift" THEN Tail(returned.items)
               ELSE [i \in 1..Len(returned.items) |->
                       returned.items[Len(returned.items) + 1 - i]]
  IN /\ returned.held /\ returned.items # <<>>
     /\ items # returned.items
     /\ returned' = [returned EXCEPT !.items = items]
     /\ notifications' =
          IF returned.array = "store"
          THEN [i \in 1..Len(items) |-> items[i].rec]
          ELSE notifications
     /\ lastOp' = Op("caller-rearrange")
     /\ UNCHANGED <<panel, capture,
                    settings, timeWindow, now, nextId, saveDebounceTimer,
                    timers, saves, prunes, loads, characterStorage,
                    localStorage, burst, calls, codec>>

CallerRearrange == \E how \in {"shift", "reverse"} : CallerRearranges(how)

\* The store with a caller that reads the list and changes what it got.
NextReaders ==
  \/ StoreAdd
  \/ Prune
  \/ Get
  \/ CallerWrite
  \/ CallerRearrange

SpecReaders == Init /\ [][NextReaders]_vars

\* ------------------------------------------- optimize and reconstruct alone
\* Media URLs a record may carry: none, a CDN URL, a relative path, a URL of
\* another host, and URLs that name one or two CDN URLs in their query.
MediaSamples ==
  { NoStr,
    Str(<<CDN, "x/y.png">>),
    Str(<<StaticDir, "coins.png">>),
    Str(<<"https://mods.example/", "a.png">>),
    Str(<<"https://proxy.example/?u=", CDN, "x/y.png">>),
    Str(<<"https://proxy.example/?u=", CDN, "x/y.png", "&v=", CDN, "z.png">>) }

\* References a record may carry: none, the kinds generateMediaRef builds,
\* an unknown kind, and the two fallback forms.
RefSamples ==
  { NoStr,
    Str(<<"static:", "coins.png">>),
    Str(<<"item:", "melvorD:Oak_Logs">>),
    Str(<<"bogus:", "x">>),
    Str(<<DL, MainCDN, "x/y.png">>),
    Str(<<DL, "https://mods.example/", "a.png">>) }

\* Outcomes of the registry lookup for a reference.
Lookups == { Found(<<CDN, "bank/oak_logs.png">>), Missing, Throws }

\* Records as addNotification stores them: count >= 1, a quantity or none.
Samples ==
  { [id |-> 1, timestamp |-> 0, type |-> "Info", message |-> "i1",
     count |-> c, quantity |-> q, media |-> m, mediaRef |-> f,
     customID |-> k] :
      c \in {1, 3}, q \in {undefined, 0, 1, 7}, m \in MediaSamples,
      f \in RefSamples, k \in {NoStr, Str(<<"c1">>)} }

\* A record before its first save, with the registry as it will answer.
InitCodec ==
  /\ notifications = <<>>
  /\ settings \in {st \in SettingsChoices : st.mode = "memory-only"}
  /\ timeWindow = "30"
  /\ now = 0
  /\ nextId = 0
  /\ saveDebounceTimer = null
  /\ timers = {}
  /\ saves = <<>>
  /\ prunes = <<>>
  /\ loads = <<>>
  /\ characterStorage = NoItem
  /\ localStorage = NoItem
  /\ lastOp = Op("init")
  /\ burst = [last |-> undefined, saves |-> 0, coalesced |-> 0]
  /\ calls = 0
  /\ codec \in [stage : {"raw"}, r : Samples, lk : Lookups]
  /\ returned = NoHandle
  /\ capture = NoCapture
  /\ panel = NoPanel

CodecStep(name) ==
  /\ lastOp' = Op(name)
  /\ UNCHANGED <<panel, capture,
                 notifications, settings, timeWindow, now, nextId,
                 saveDebounceTimer, timers, saves, prunes, loads,
                 characterStorage, localStorage, burst, calls, returned>>

\* A save optimizes the record.
Optimize ==
  /\ codec.stage = "raw"
  /\ codec' = [stage |-> "stored", r |-> codec.r, lk |-> codec.lk,
               stored |-> optimizeNotification(codec.r)]
  /\ CodecStep("optimize")

\* A load reconstructs the persisted record; decoded is what reconstructMedia
\* returned or threw for its reference.
Reconstruct ==
  /\ codec.stage = "stored"
  /\ codec' = [stage |-> "rebuilt", r |-> codec.r, lk |-> codec.lk,
               stored |-> codec.stored,
               decoded |-> reconstructMedia(codec.stored.mediaRef.s, codec.lk),
               rebuilt |-> reconstructNotification(codec.stored, codec.lk)]
  /\ CodecStep("reconstruct")

\* The next save optimizes the loaded record.
Reoptimize ==
  /\ codec.stage = "rebuilt"
  /\ codec' = [stage |-> "again", r |-> codec.r, lk |-> codec.lk,
               stored |-> codec.stored, rebuilt |-> codec.rebuilt,
               again |-> optimizeNotification(codec.rebuilt)]
  /\ CodecStep("reoptimize")

\* reconstructMedia called on the reference of the record as it is.
Decode ==
  /\ codec.stage = "raw"
  /\ codec' = [stage |-> "decoded", r |-> codec.r, lk |-> codec.lk,
               decoded |-> reconstructMedia(codec.r.mediaRef.s, codec.lk)]
  /\ CodecStep("decode")

NextCodec ==
  \/ Optimize
  \/ Reconstruct
  \/ Reoptimize
  \/ Decode

SpecCodec == InitCodec /\ [][NextCodec]_vars

\* -------------------------------------------------------- the capture layer
\* Messages of raw events are sequences of characters, so that trim and
\* includes are computed; TAB stands for the tab character.
Whitespace == {" ", "TAB"}
UndefinedText == <<"u", "n", "d", "e", "f", "i", "n", "e", "d">>
NullText == <<"n", "u", "l", "l">>

\* message.includes(pat).
Includes(s, pat) ==
  \E i \in 1..(Len(s) - Len(pat) + 1) : SubSeq(s, i, i + Len(pat) - 1) = pat

\* message.trim().
Trim(s) ==
  IF \A i \in 1..Len(s) : s[i] \in Whitespace THEN <<>>
  ELSE LET a == CHOOSE i \in 1..Len(s) :
                  s[i] \notin Whitespace /\ \A j \in 1..(i - 1) : s[j] \in Whitespace
           b == CHOOSE i \in 1..Len(s) :
                  s[i] \notin Whitespace
                  /\ \A j \in (i + 1)..Len(s) : s[j] \in Whitespace
       IN SubSeq(s, a, b)

\* The type names of the patches that contain 'Item', 'GP', 'Coins',
\* 'Currency' or 'XP'.
QuantityTypes ==
  {"AddItem", "RemoveItem", "AddGP", "RemoveGP", "AddSlayerCoins",
   "RemoveSlayerCoins", "AddCurrency", "RemoveCurrency", "SkillXP",
   "AbyssalXP"}

\* A raw quantity: a number, or one of undefined, null and NaN.
Quantity(n) == [kind |-> "number", n |-> n]
NotANumber(kind) == [kind |-> kind, n |-> 0]

\* Mutant: a message that contains 'null' is accepted.
isValidNotification_NullAccepted(data) ==
  IF data.type = "" \/ ~Truthy(data.message) THEN FALSE
  ELSE IF Len(Trim(data.message.s)) = 0 THEN FALSE
  ELSE IF Includes(data.message.s, UndefinedText) THEN FALSE
  ELSE IF data.type \in QuantityTypes /\ data.quantity.kind # "number"
  THEN FALSE
  ELSE TRUE

isValidNotification(data) ==
  IF data.type = "" \/ ~Truthy(data.message) THEN FALSE
  ELSE IF Len(Trim(data.message.s)) = 0 THEN FALSE
  ELSE IF Includes(data.message.s, UndefinedText) THEN FALSE
  ELSE IF Includes(data.message.s, NullText) THEN FALSE
  ELSE IF data.type \in QuantityTypes /\ data.quantity.kind # "number"
  THEN FALSE
  ELSE TRUE

\* generateMediaRef for the source the patch passes.
generateMediaRef(source) ==
  IF ~source.given THEN NoStr
  ELSE IF source.sourceType = "static"
  THEN Str(<<"static:", source.name>>)
  ELSE IF source.id # "" THEN Str(<<source.sourceType \o ":", source.id>>)
  ELSE NoStr

NoSource == [given |-> FALSE, sourceType |-> "", name |-> "", id |-> ""]
CoinsSource ==
  [given |-> TRUE, sourceType |-> "static", name |-> "coins.png", id |-> ""]

\* Raw events as the patches and other callers hand them to
\* captureNotification.
RawMessages ==
  { NoStr, Str(<<>>), Str(<<" ">>), Str(<<" ", "TAB">>),
    Str(<<"+", "5", " ", "G", "P">>), Str(<<" ", "o", "k", " ">>),
    Str(<<"x", " ">> \o UndefinedText), Str(NullText),
    Str(<<"a", "n">> \o NullText \o <<"e", "d">>),
    Str(<<"n", "u", "l">>), Str(<<"N", "u", "l", "l">>) }

RawQuantities ==
  {NotANumber("undefined"), NotANumber("null"), NotANumber("NaN"), Quantity(5)}

RawEvents ==
  { [type |-> ty, message |-> m, quantity |-> q,
     source |-> IF ty = "AddGP" THEN CoinsSource ELSE NoSource] :
      ty \in {"", "Info", "AddGP"}, m \in RawMessages, q \in RawQuantities }

NoRaw ==
  [type |-> "", message |-> NoStr, quantity |-> NotANumber("undefined"),
   source |-> NoSource]

InitCapture ==
  /\ notifications = <<>>
  /\ settings \in {st \in SettingsChoices : st.mode = "memory-only"}
  /\ timeWindow = "30"
  /\ now = 0
  /\ nextId = 0
  /\ saveDebounceTimer = null
  /\ timers = {}
  /\ saves = <<>>
  /\ prunes = <<>>
  /\ loads = <<>>
  /\ characterStorage = NoItem
  /\ localStorage = NoItem
  /\ lastOp = Op("init")
  /\ burst = [last |-> undefined, saves |-> 0, coalesced |-> 0]
  /\ calls = 0
  /\ codec = NoCodec
  /\ returned = NoHandle
  /\ capture \in [stage : {"ready"}, captureCount : {0}, callback : BOOLEAN,
                  delivered : {<<>>}, raw : {NoRaw}]
  /\ panel = NoPanel

\* captureNotification(data): an invalid event returns at once; otherwise the
\* record is built, captureCount is incremented and the record is passed to
\* the callback when one is registered.
captureNotification(data) ==
  LET record == [id |-> nextId + 1, timestamp |-> now, type |-> data.type,
                 message |-> data.message,
                 mediaRef |-> generateMediaRef(data.source),
                 quantity |-> data.quantity]
  IN /\ capture.stage = "ready"
     /\ capture.captureCount < MaxCaptures
     /\ IF ~isValidNotification(data)
        THEN /\ capture' = [capture EXCEPT !.raw = data]
             /\ UNCHANGED nextId
        ELSE /\ capture' =
                  [capture EXCEPT
                     !.raw = data,
                     !.captureCount = @ + 1,
                     !.delivered = IF capture.callback
                                   THEN Append(@, record) ELSE @]
             /\ nextId' = nextId + 1
     /\ lastOp' = Op("capture")
     /\ UNCHANGED <<panel, notifications, settings, timeWindow, now,
                    saveDebounceTimer, timers, saves, prunes, loads,
                    characterStorage, localStorage, burst, calls, codec,
                    returned>>

Capture == \E data \in RawEvents : captureNotification(data)

SpecCapture == InitCapture /\ [][Capture]_vars

\* ------------------------------------------------------------------- claims
Sorted(list) ==
  \A i \in 1..(Len(list) - 1) : list[i].timestamp >= list[i + 1].timestamp

\* The limit of the count-bounded modes, undefined in the other modes.
CountLimit(st) ==
  CASE st.mode = "local-storage" -> st.localStorageLineCount
    [] st.mode = "character-save" /\ st.characterSaveType # "percentage" ->
         st.characterSaveLineCount
    [] OTHER -> undefined

\* The newest record the event could merge into by type and content,
\* whatever its age: 0 when there is none.
Candidate(list, e) ==
  IF \E i \in 1..Len(list) : Matches(list[i], e)
  THEN CHOOSE i \in 1..Len(list) :
         Matches(list[i], e) /\ \A j \in 1..(i - 1) : ~Matches(list[j], e)
  ELSE 0

\* The step is an addNotification call.
IsAdd == lastOp'.op = "add"

\* C1: after any sequence of addNotification calls the list getNotifications
\* returns is sorted by timestamp, newest first, in every observable state.
C1_SortedNewestFirst == Sorted(getNotifications)

\* C1 witness: a merge has moved an older record in front of a newer one.
C1_Witness ==
  /\ lastOp.op = "add" /\ lastOp.merged
  /\ Len(notifications) >= 2
  /\ notifications[1].id < notifications[2].id
  /\ notifications[1].timestamp > notifications[2].timestamp

\* C2: an event with a quantity that arrives inside the window of the newest
\* record of its type, itself a single event with a quantity, merges into
\* it: the sequence keeps its length and its records, and that record comes
\* first with count 2 and the sum of the two quantities.
C2_QuantityMergeSums ==
  [][\A c \in 1..Len(notifications) :
       ( /\ IsAdd
         /\ lastOp'.ev.quantity # undefined
         /\ c = Candidate(notifications, lastOp'.ev)
         /\ notifications[c].count = 1
         /\ notifications[c].quantity # undefined
         /\ now' - notifications[c].timestamp < TimeWindowMs(timeWindow) )
       => /\ Len(notifications') = Len(notifications)
          /\ notifications'[1] =
               [notifications[c] EXCEPT
                  !.count = 2,
                  !.quantity = notifications[c].quantity + lastOp'.ev.quantity,
                  !.timestamp = now']
          /\ \A j \in 1..Len(notifications) :
               j # c => \E k \in 2..Len(notifications') :
                          notifications'[k] = notifications[j]]_vars

\* C2 witness: AddGP 5, then AddGP 7 ten seconds later under a 30 s window,
\* is one record with count 2 and quantity 12.
C2_Witness ==
  /\ lastOp.op = "add" /\ lastOp.merged /\ lastOp.ev.quantity = 7
  /\ timeWindow = "30" /\ lastOp.age = 10000
  /\ Len(notifications) = 1
  /\ notifications[1].count = 2 /\ notifications[1].quantity = 12

\* C3: an event without a quantity merges only into a record of its type
\* with exactly its message; when no record of its type has its message it
\* becomes a new record with count 1 and the records before it stay as
\* they are, also inside the window.
C3_MessageMustMatch ==
  [][( IsAdd /\ lastOp'.ev.quantity = undefined )
       => /\ lastOp'.merged =>
               /\ notifications'[1].message = lastOp'.ev.message
               /\ \E i \in 1..Len(notifications) :
                    /\ notifications[i].id = notifications'[1].id
                    /\ notifications[i].type = lastOp'.ev.type
                    /\ notifications[i].message = lastOp'.ev.message
          /\ Candidate(notifications, lastOp'.ev) = 0 =>
               /\ ~lastOp'.merged
               /\ notifications'[1].id = nextId'
               /\ notifications'[1].count = 1
               /\ notifications'[1].message = lastOp'.ev.message
               /\ \A j \in 2..Len(notifications') :
                    notifications'[j] = notifications[j - 1]]_vars

\* C3 witness: two info events with different messages, the second inside
\* the window of the first, are two records with count 1.
C3_Witness ==
  /\ lastOp.op = "add" /\ ~lastOp.merged /\ lastOp.ev.quantity = undefined
  /\ Len(notifications) >= 2
  /\ notifications[1].type = notifications[2].type
  /\ notifications[1].message # notifications[2].message
  /\ notifications[1].count = 1 /\ notifications[2].count = 1
  /\ now - notifications[2].timestamp < TimeWindowMs(timeWindow)

\* C4 as claimed: an event arriving at the window boundary or later
\* (now - timestamp >= window) does not merge into the newest matching
\* record, one arriving strictly before does.
C4_BoundaryExcluded ==
  [][\A c \in 1..Len(notifications) :
       ( IsAdd /\ c = Candidate(notifications, lastOp'.ev) )
       => ( lastOp'.merged <=>
              now' - notifications[c].timestamp < TimeWindowMs(timeWindow) )]_vars

\* C4 amended: the event merges exactly when now - timestamp <= window: the
\* boundary itself still merges, only a later event does not.
C4_BoundaryIncluded ==
  [][\A c \in 1..Len(notifications) :
       ( IsAdd /\ c = Candidate(notifications, lastOp'.ev) )
       => ( lastOp'.merged <=>
              now' - notifications[c].timestamp <= TimeWindowMs(timeWindow) )]_vars

\* C4 witness: a merge into a record exactly one window old.
C4_Witness ==
  /\ lastOp.op = "add" /\ lastOp.merged
  /\ lastOp.age = TimeWindowMs(timeWindow)
  /\ notifications[1].count = 2

C6_NewestKept ==
  [][( /\ IsAdd /\ ~lastOp'.merged
       /\ CountLimit(settings) # undefined
       /\ Len(notifications) + 1 > CountLimit(settings) )
       => /\ Len(notifications') = CountLimit(settings)
          /\ notifications'[1].id = nextId'
          /\ notifications'[1].count = 1
          /\ \A j \in 2..CountLimit(settings) :
               notifications'[j] = notifications[j - 1]]_vars

\* C6 witness: under the limit of two, after three adds that did not merge,
\* the list is the third record, then the second; the first is gone.
C6_Witness ==
  /\ lastOp.op = "add" /\ ~lastOp.merged
  /\ CountLimit(settings) = 2
  /\ Len(notifications) = 2
  /\ notifications[1].id = 3 /\ notifications[2].id = 2

\* Size in bytes of what a save would persist now.
PersistedLength == CompressedLength(OptimizeAll(notifications))

\* C7 as claimed: in the size-bounded mode, whenever no eviction pass is
\* running, the persisted form of the sequence is within the byte budget.
C7_WithinBudget ==
  ( IsPercentage(settings) /\ prunes = <<>> )
  => PersistedLength <= MaxBytes(settings)

\* C8 as claimed: when the measurement of an eviction pass fails, the
\* addNotification call that started the pass has not returned normally.
C8_FailureReachesCaller ==
  \A i \in 1..Len(prunes) : ~prunes[i].ok => ~prunes[i].addReturned

\* C9: debounced persistence coalesces. A debounced save runs no earlier
\* than SAVE_DEBOUNCE_MS after the last mutation that scheduled one, at most
\* one debounce timer is pending at any moment and it is due SAVE_DEBOUNCE_MS
\* after that mutation, and after such a mutation either its timer is
\* pending and no debounced save has run, or no timer is pending and
\* exactly one has.
C9_DebounceCoalesces ==
  [][/\ lastOp'.op = "timer" => now - burst.last >= SAVE_DEBOUNCE_MS
     /\ Cardinality(timers') <= 1
     /\ \A t \in timers' : t.due = burst'.last + SAVE_DEBOUNCE_MS
     /\ burst'.last # undefined =>
          \/ Cardinality(timers') = 1 /\ burst'.saves = 0
          \/ timers' = {} /\ burst'.saves = 1]_vars

\* C9 witness: a mutation replaced the pending timer of an earlier one less
\* than a second before, and the one save of the burst has just run.
C9_Witness ==
  /\ lastOp.op = "timer"
  /\ burst.coalesced = 1 /\ burst.saves = 1
  /\ burst.last = 1 /\ now = 1 + SAVE_DEBOUNCE_MS
  /\ timers = {}

\* C10 as claimed: a load() called right after clearAll() returned leaves
\* the sequence empty when it finishes.
C10_ClearThenLoadEmpty ==
  ( lastOp.op \in {"load", "load-done"} /\ lastOp.afterClear
    /\ \A i \in 1..Len(loads) : ~loads[i].afterClear )
  => notifications = <<>>

\* The fallback marker starts the text of a reference.
IsFallback(v) == v.def /\ StartsWith(v.s, DL)

\* C11 as claimed: reconstruct(optimize(r)) equals r on id, timestamp, type,
\* message, count, quantity and customID.
C11_RoundTrip ==
  codec.stage = "rebuilt" =>
    /\ codec.rebuilt.id = codec.r.id
    /\ codec.rebuilt.timestamp = codec.r.timestamp
    /\ codec.rebuilt.type = codec.r.type
    /\ codec.rebuilt.message = codec.r.message
    /\ codec.rebuilt.count = codec.r.count
    /\ codec.rebuilt.quantity = codec.r.quantity
    /\ codec.rebuilt.customID = codec.r.customID

\* C12 as claimed: a persisted record without count reconstructs with
\* count 1, one without quantity reconstructs without quantity.
C12_Defaults ==
  codec.stage = "rebuilt" =>
    /\ codec.stored.count = undefined => codec.rebuilt.count = 1
    /\ codec.stored.quantity = undefined => codec.rebuilt.quantity = undefined

\* C13: the reconstructed record has a mediaRef exactly when the persisted
\* one has a reference that is not a fallback, and then the same one; for a
\* fallback reference it has media and no mediaRef.
C13_RefOnlyIfSymbolic ==
  codec.stage = "rebuilt" =>
    /\ codec.rebuilt.mediaRef.def <=>
         (Truthy(codec.stored.mediaRef) /\ ~IsFallback(codec.stored.mediaRef))
    /\ codec.rebuilt.mediaRef.def =>
         codec.rebuilt.mediaRef = codec.stored.mediaRef
    /\ IsFallback(codec.stored.mediaRef) =>
         codec.rebuilt.media.def /\ ~codec.rebuilt.mediaRef.def

\* C13 witness: a record loaded from a fallback reference, with the decoded
\* media and no reference.
C13_Witness ==
  /\ codec.stage = "rebuilt"
  /\ codec.stored.mediaRef = Str(<<DL, MainCDN, "x/y.png">>)
  /\ codec.rebuilt.media = Str(<<CDN, "x/y.png">>)
  /\ ~codec.rebuilt.mediaRef.def

\* C14 as claimed: a record persisted with a fallback reference and loaded
\* is not persisted with the same fallback string by the next save.
C14_FallbackRederived ==
  ( codec.stage = "again" /\ IsFallback(codec.stored.mediaRef) )
  => codec.again.mediaRef # codec.stored.mediaRef

\* C15 as claimed: for a record with a media URL and no reference, decoding
\* the fallback reference optimizeNotification built returns the URL.
C15_FallbackReversible ==
  ( codec.stage = "rebuilt" /\ ~Truthy(codec.r.mediaRef)
    /\ Truthy(codec.r.media) )
  => /\ ~codec.decoded.threw
     /\ codec.decoded.value = codec.r.media.s

\* C16: reconstructMedia never throws, and an unknown kind, an id the
\* registry does not know and a lookup that throws all give the empty
\* string.
C16_NeverRaises ==
  codec.stage = "decoded" =>
    /\ ~codec.decoded.threw
    /\ ( /\ Truthy(codec.r.mediaRef) /\ ~IsFallback(codec.r.mediaRef)
         /\ \/ codec.r.mediaRef.s[1] \notin Kinds
            \/ codec.r.mediaRef.s[1] # "static:" /\ codec.lk.kind # "found" )
       => codec.decoded.value = <<>>

\* C16 witness: the registry threw for an item reference and the result is
\* the empty string.
C16_Witness ==
  /\ codec.stage = "decoded"
  /\ codec.r.mediaRef = Str(<<"item:", "melvorD:Oak_Logs">>)
  /\ codec.lk.kind = "throws"
  /\ codec.decoded = Returned(<<>>)

\* C17: load() never rejects; when the backend read throws or the payload
\* is malformed, at once or after the await, the sequence is empty when
\* load resolves.
C17_LoadNeverPropagates ==
  [][lastOp'.op \in {"load", "load-done"} =>
       /\ ~lastOp'.rejected
       /\ lastOp'.failed => notifications' = <<>>]_vars

\* C17 witness: a persisted record was read, its payload failed to
\* decompress, and the load ended with the sequence empty although records
\* were in memory when it was called.
C17_Witness ==
  /\ lastOp.op = "load-done" /\ lastOp.failed /\ ~lastOp.rejected
  /\ BackendItem(settings).present /\ BackendItem(settings).data # <<>>
  /\ notifications = <<>>

\* C18: nothing a caller does to the list it got from getNotifications, to
\* its order, its length or the fields of its records, changes the store's
\* sequence or what getNotifications returns next.
C18_DefensiveCopy ==
  [][lastOp'.op \in {"caller-write", "caller-rearrange"} =>
       /\ notifications' = notifications
       /\ getNotifications' = getNotifications]_vars

\* C18 witness: the caller has overwritten the count of the first record
\* of its list, and the store's record with that id has its count.
C18_Witness ==
  /\ lastOp.op = "caller-write"
  /\ Len(returned.items) >= 1 /\ Len(notifications) >= 1
  /\ returned.items[1].rec.id = notifications[1].id
  /\ returned.items[1].rec.count = 0
  /\ notifications[1].count >= 1

\* C19: every addNotification call dispatches exactly one change
\* notification: 'updated' with the surviving record when no record was
\* created, 'added' with the new record when one was.
C19_OneChangeEvent ==
  [][IsAdd =>
       /\ Len(lastOp'.dispatched) = 1
       /\ nextId' = nextId =>
            /\ lastOp'.dispatched[1].name =
                 "activity-monitor-notification-updated"
            /\ lastOp'.dispatched[1].id = notifications'[1].id
            /\ \E i \in 1..Len(notifications) :
                 notifications[i].id = lastOp'.dispatched[1].id
       /\ nextId' # nextId =>
            /\ lastOp'.dispatched[1].name =
                 "activity-monitor-notification-added"
            /\ lastOp'.dispatched[1].id = nextId']_vars

\* C19 witness: a merging add has dispatched 'updated' with the id of the
\* record it merged into, which is not the newest id.
C19_Witness ==
  /\ lastOp.op = "add" /\ lastOp.merged
  /\ lastOp.dispatched =
       <<[name |-> "activity-monitor-notification-updated", id |-> 1]>>
  /\ nextId = 2

\* C20: a merging add keeps the length and the set of ids, leaves every
\* other record as it is, keeps the surviving record's id, type, message,
\* media, mediaRef and customID, and starts no eviction.
C20_MergeDestroysNothing ==
  [][( IsAdd /\ nextId' = nextId ) =>
       /\ Len(notifications') = Len(notifications)
       /\ {notifications'[i].id : i \in 1..Len(notifications')}
            = {notifications[i].id : i \in 1..Len(notifications)}
       /\ prunes' = prunes
       /\ \A i \in 1..Len(notifications) :
            \E k \in 1..Len(notifications') :
              /\ notifications'[k].id = notifications[i].id
              /\ notifications'[k].type = notifications[i].type
              /\ notifications'[k].message = notifications[i].message
              /\ notifications'[k].media = notifications[i].media
              /\ notifications'[k].mediaRef = notifications[i].mediaRef
              /\ notifications'[k].customID = notifications[i].customID
              /\ k # 1 => notifications'[k] = notifications[i]]_vars

\* C20 witness: a GP event with another message merged into the older of
\* two records, which kept its message and moved to the front.
C20_Witness ==
  /\ lastOp.op = "add" /\ lastOp.merged
  /\ Len(notifications) = 2
  /\ notifications[1].id = 1 /\ notifications[1].count = 2
  /\ notifications[1].message # lastOp.ev.message
  /\ notifications[1].mediaRef = Str(<<"static:", "coins.png">>)


\* ------------------------------------------------------------------ C21
Ids(list) == {list[i].id : i \in 1..Len(list)}

\* C21: a record leaves the in-memory sequence only through
\* removeNotification, clearAll or capacity-driven eviction (the truncation
\* inside addNotification, a pop of the size-bounded pass); no load, started
\* or finished, removes a record.
C21_LeavesOnlyByRemoveClearEvict ==
  [][(Ids(notifications) \ Ids(notifications') # {})
       => lastOp'.op \in {"remove", "clearAll", "add", "prune-pop"}]_vars


\* ------------------------------------------------------------------ C22
\* The backend save() writes under a mode; memory-only has none.
BackendOf(mode) ==
  CASE mode = "character-save" -> "character"
    [] mode = "local-storage" -> "local"
    [] OTHER -> "none"

\* C22: a settings update that changes the mode starts a save in the same
\* step, without touching the debounce timer, whose snapshot is the current
\* sequence and whose backend is the one of the new mode (memory-only has
\* no backend and nothing is started); an update that leaves the mode as it
\* was starts no save.
C22_ModeChangeSavesToNewBackend ==
  [][lastOp'.op = "updateSettings" =>
       /\ timers' = timers /\ saveDebounceTimer' = saveDebounceTimer
       /\ notifications' = notifications
       /\ IF settings'.mode # settings.mode /\ settings'.mode # "memory-only"
          THEN /\ Len(saves') = Len(saves) + 1
               /\ SubSeq(saves', 1, Len(saves)) = saves
               /\ saves'[Len(saves')].backend = BackendOf(settings'.mode)
               /\ saves'[Len(saves')].snapshot = OptimizeAll(notifications)
          ELSE saves' = saves]_vars

\* C22 witness: with a record in memory the mode went from character-save
\* to local-storage, and the save the update started has written the record
\* to localStorage while character storage holds nothing.
C22_Witness ==
  /\ lastOp.op = "save-done"
  /\ settings.mode = "local-storage"
  /\ timers # {}
  /\ localStorage.present /\ localStorage.data = OptimizeAll(notifications)
  /\ notifications # <<>>
  /\ ~characterStorage.present

\* ------------------------------------------------------------------ C23
\* C23 as claimed: right after a limit is changed by a settings update, the
\* sequence satisfies the limit of the current mode.
C23_LimitChangeReevaluates ==
  [][lastOp'.op = "updateLimit" =>
       /\ CountLimit(settings') # undefined =>
            Len(notifications') <= CountLimit(settings')
       /\ IsPercentage(settings') =>
            CompressedLength(notifications') <= MaxBytes(settings')]_vars


\* ------------------------------------------------------------------ C24
\* C24: in memory-only mode no add, update, remove, clearAll, timer-driven
\* or immediate save starts a save or changes either backend item, nothing
\* is left pending, and load() leaves the in-memory sequence empty.
C24_VolatileWritesNothing ==
  [][/\ characterStorage' = characterStorage
     /\ localStorage' = localStorage
     /\ saves' = <<>> /\ loads' = <<>> /\ prunes' = <<>>
     /\ (lastOp'.op = "load" => notifications' = <<>>)]_vars

\* C24 witness: character storage holds a payload, a record was added, the
\* debounce timer fired and called save(), and load() has left the sequence
\* empty with the payload untouched.
C24_Witness ==
  /\ settings.mode = "memory-only"
  /\ lastOp.op = "load"
  /\ nextId = 1 /\ burst.saves = 1
  /\ notifications = <<>>
  /\ characterStorage = Item(Persisted)
  /\ localStorage = NoItem


\* ------------------------------------------------------------------ C25
\* C25 as claimed: every record of the in-memory sequence has a count of at
\* least 1 in every reachable state.
C25_CountAtLeastOne ==
  \A i \in 1..Len(notifications) : notifications[i].count >= 1


\* ------------------------------------------------------------------ C26
\* C26: for every addNotification call the sequence the listeners of the
\* change notification read already holds the event's record first (the
\* new record with count 1, or the surviving record with its count raised
\* by one), and no backend write with that mutation precedes the dispatch:
\* the call itself starts no save and writes nothing, and no snapshot or
\* backend item held the new record before.
C26_MemoryThenDispatchThenWrite ==
  [][IsAdd =>
       /\ Len(lastOp'.dispatched) = 1
       /\ lastOp'.seen = notifications'
       /\ lastOp'.seen # <<>>
       /\ lastOp'.seen[1].id = lastOp'.dispatched[1].id
       /\ lastOp'.seen[1].timestamp = now'
       /\ IF lastOp'.merged
          THEN \E i \in 1..Len(notifications) :
                 /\ notifications[i].id = lastOp'.seen[1].id
                 /\ lastOp'.seen[1].count = notifications[i].count + 1
          ELSE /\ lastOp'.seen[1].id = nextId' /\ nextId' = nextId + 1
               /\ lastOp'.seen[1].count = 1
               /\ \A j \in 1..Len(saves) : nextId' \notin Ids(saves[j].snapshot)
               /\ nextId' \notin Ids(characterStorage.data)
               /\ nextId' \notin Ids(localStorage.data)
       /\ saves' = saves
       /\ characterStorage' = characterStorage
       /\ localStorage' = localStorage]_vars

\* C26 witness: a save that started after the dispatch of a merge has
\* written the merged record, count 2, to character storage.
C26_Witness ==
  /\ lastOp.op = "save-done"
  /\ characterStorage.present
  /\ characterStorage.data # <<>>
  /\ characterStorage.data[1].count = 2
  /\ notifications # <<>> /\ notifications[1].count = 2


\* ------------------------------------------------------------------ C27
\* No timer is pending and no save, eviction pass or load is in flight.
Quiescent ==
  /\ timers = {} /\ saveDebounceTimer = null
  /\ saves = <<>> /\ prunes = <<>> /\ loads = <<>>

\* C27 as claimed: in a persistent mode, when nothing is pending or in
\* flight and nothing has failed, the backend item of the mode decodes to
\* the optimized form of the in-memory sequence, record for record (an
\* absent item counts as the empty sequence).
C27_QuiescentBackendMatches ==
  ( settings.mode # "memory-only" /\ Quiescent )
  => BackendItem(settings).data = OptimizeAll(notifications)


\* ------------------------------------------------------------------ C28
\* An invalid raw event: no type, or a message that is
\* missing, empty, blank, or contains 'undefined' or 'null'.
InvalidRaw(data) ==
  \/ data.type = ""
  \/ ~data.message.def
  \/ \A i \in 1..Len(data.message.s) : data.message.s[i] \in Whitespace
  \/ Includes(data.message.s, UndefinedText)
  \/ Includes(data.message.s, NullText)

\* C28: every record the capture layer has passed to the callback has a
\* type and a message that is not empty, not blank and contains neither
\* 'undefined' nor 'null', and a captureNotification call with an invalid
\* raw event passes nothing to the callback and leaves captureCount as it
\* was.
C28_OnlyValidRecordsDelivered ==
  [][lastOp'.op = "capture" =>
       /\ \A i \in 1..Len(capture'.delivered) :
            ~InvalidRaw(capture'.delivered[i])
       /\ InvalidRaw(capture'.raw) =>
            /\ capture'.delivered = capture.delivered
            /\ capture'.captureCount = capture.captureCount]_vars

\* C28 witness: one record was delivered, then an event whose message
\* contains 'null' inside a longer word was dropped.
C28_Witness ==
  /\ lastOp.op = "capture"
  /\ capture.callback
  /\ capture.captureCount = 1 /\ Len(capture.delivered) = 1
  /\ capture.raw.type = "Info"
  /\ Includes(capture.raw.message.s, NullText)
  /\ Len(capture.raw.message.s) > Len(NullText)


\* ------------------------------------------------------------------ C29
\* C29: a size-bounded eviction pass removes at most PruneBatch - 1 = 4
\* records more than the least number of oldest records whose removal
\* brings the measured size within the byte budget.
C29_OvershootAtMostFour ==
  \A i \in 1..Len(prunes) :
    prunes[i].pruneCount <= prunes[i].need + (PruneBatch - 1)

\* C29 witness: a pass that needed to remove one record has removed five.
C29_Witness ==
  /\ prunes # <<>>
  /\ prunes[1].need = 1
  /\ prunes[1].pruneCount = 5
  /\ Len(notifications) > 0

\* ------------------------------------------------------------------ C30
\* C30: every size-bounded eviction pass terminates, whatever the length
\* of the sequence and the budget: it ends with the sequence measured
\* within the budget or with the sequence empty.
C30_PassTerminates ==
  (prunes # <<>>) ~>
    ( /\ prunes = <<>>
      /\ lastOp.op = "prune-done"
      /\ \/ CompressedLength(notifications) <= MaxBytes(settings)
         \/ notifications = <<>> )

\* C30 witness: under a budget that the empty sequence exceeds, a pass over
\* thirteen records has ended with the sequence empty.
C30_Witness ==
  /\ lastOp.op = "prune-done"
  /\ nextId = 1
  /\ notifications = <<>>
  /\ CompressedLength(<<>>) > MaxBytes(settings)


\* ------------------------------------------------------------------ C31
\* The exhaustive scan: the newest record of the whole sequence that matches
\* the event and is within the window (the first of them by position when
\* timestamps tie), 0 when there is none.
ExhaustiveIndex(list, e, nowMs, windowMs) ==
  LET hit(i) == Matches(list[i], e) /\ ~OutOfWindow(nowMs, list[i], windowMs)
      best(i) ==
        /\ hit(i)
        /\ \A j \in 1..Len(list) :
             hit(j) => \/ list[j].timestamp < list[i].timestamp
                       \/ (list[j].timestamp = list[i].timestamp /\ j >= i)
  IN IF \E i \in 1..Len(list) : hit(i)
     THEN CHOOSE i \in 1..Len(list) : best(i)
     ELSE 0

\* C31 as claimed: in every reachable state, for every event, the grouping
\* scan that stops at the first out-of-window record selects the record the
\* exhaustive scan selects.
C31_EarlyExitIsExhaustive ==
  \A e \in StoreEvents :
    existingIndex(notifications, e, now, TimeWindowMs(timeWindow))
      = ExhaustiveIndex(notifications, e, now, TimeWindowMs(timeWindow))


\* ------------------------------------------------------------------ C32
\* C32 as claimed: of two overlapping saves the one that started last wins.
\* Every save in flight runs to completion and writes, so the older
\* snapshot stays exactly when the younger save writes first: no save
\* writes while a save that started before it, for the same backend and
\* with another snapshot, is still compressing.
C32_LastStartedSaveWins ==
  [][lastOp'.op = "save-done" =>
       \E i \in 1..Len(saves) :
         /\ saves' = RemoveAt(saves, i)
         /\ \A j \in 1..(i - 1) :
              \/ saves[j].backend # saves[i].backend
              \/ saves[j].snapshot = saves[i].snapshot
              \/ ~saves[j].ok \/ ~saves[i].ok]_vars


\* ------------------------------------------------------------------ C33
\* C33 as claimed: under a mode that is none of the three, load() and
\* save() (called by the debounce timer and by clearAll) surface an error
\* to their caller.
C33_InvalidModeSurfaces ==
  [][( /\ settings.mode \notin Modes
       /\ lastOp'.op \in {"load", "timer", "clearAll"} )
       => lastOp'.rejected]_vars


\* ------------------------------------------------------------------ C34
\* A debounced save is pending: the handle names a timer that is set.
SavePending(ts, h) == h # null /\ \E t \in ts : t.id = h

\* What clearAll does: the sequence is empty as it returns, the debounce
\* timer is as it was, and in a persistent mode one save of the empty
\* sequence has started for the backend of the mode.
ClearsAndSavesAtOnce ==
  /\ notifications' = <<>>
  /\ timers' = timers /\ saveDebounceTimer' = saveDebounceTimer
  /\ IF settings.mode = "memory-only" THEN saves' = saves
     ELSE /\ Len(saves') = Len(saves) + 1
          /\ SubSeq(saves', 1, Len(saves)) = saves
          /\ saves'[Len(saves')].backend = BackendOf(settings.mode)
          /\ saves'[Len(saves')].snapshot = <<>>

\* C34 as claimed: every updateNotification and removeNotification call,
\* also one whose id is not in the sequence, leaves a debounced save
\* pending; clearAll empties the sequence synchronously and starts a save
\* at once, not through the debounce timer.
C34_EveryCallSchedules ==
  [][/\ lastOp'.op \in {"update", "remove"} =>
          SavePending(timers', saveDebounceTimer')
     /\ lastOp'.op = "clearAll" => ClearsAndSavesAtOnce]_vars

\* C34 amended: removeNotification always, and updateNotification when the
\* id is in the sequence, set a timer due one debounce delay from now and
\* keep its handle; updateNotification with an id that is not in the
\* sequence changes neither the sequence nor the timers; clearAll as above.
C34_SchedulesWhenFound ==
  [][/\ ( lastOp'.op = "remove" \/ (lastOp'.op = "update" /\ lastOp'.merged) )
          => /\ SavePending(timers', saveDebounceTimer')
             /\ [id |-> saveDebounceTimer', due |-> now + SAVE_DEBOUNCE_MS]
                  \in timers'
             /\ Cardinality(timers') <= Cardinality(timers) + 1
     /\ ( lastOp'.op = "update" /\ ~lastOp'.merged )
          => /\ notifications' = notifications
             /\ timers' = timers /\ saveDebounceTimer' = saveDebounceTimer
     /\ lastOp'.op = "clearAll" => ClearsAndSavesAtOnce]_vars

\* C34 witness: with a record in the sequence and no timer pending,
\* updateNotification was called with an id that is not in the sequence and
\* no debounced save is pending.
C34_Witness ==
  /\ lastOp.op = "update" /\ ~lastOp.merged
  /\ notifications # <<>>
  /\ timers = {} /\ saveDebounceTimer = null


\* ------------------------------------------------- splitting a reference
\* Here a reference is a sequence of pieces of text in which every ':' is
\* a piece of its own, so that split and join are computed.
MaxRefLen == 5
Colon == ":"
RefPieces == {"item", "static", "dl", "melvorD", "Oak_Logs", Colon}
RECURSIVE SeqsUpTo(_, _)
SeqsUpTo(S, n) ==
  IF n = 0 THEN {<<>>}
  ELSE LET shorter == SeqsUpTo(S, n - 1)
       IN shorter \cup {Append(s, x) : s \in {q \in shorter : Len(q) = n - 1}, x \in S}
Refs == SeqsUpTo(RefPieces, MaxRefLen)

\* mediaRef.split(':'): the texts between the separators, empty ones kept.
RECURSIVE Split(_, _)
Split(t, sep) ==
  IF \A i \in 1..Len(t) : t[i] # sep THEN <<t>>
  ELSE LET k == CHOOSE i \in 1..Len(t) : t[i] = sep /\ \A j \in 1..(i - 1) : t[j] # sep
       IN <<SubSeq(t, 1, k - 1)>> \o Split(SubSeq(t, k + 1, Len(t)), sep)

\* Mutant: only the part after the first separator is taken.
JoinParts_FirstOnly(parts, sep) == IF parts = <<>> THEN <<>> ELSE parts[1]

\* idParts.join(':').
RECURSIVE JoinParts(_, _)
JoinParts(parts, sep) ==
  IF parts = <<>> THEN <<>>
  ELSE IF Len(parts) = 1 THEN parts[1]
  ELSE parts[1] \o <<sep>> \o JoinParts(Tail(parts), sep)

\* const [type, ...idParts] = mediaRef.split(':'); id = idParts.join(':').
SplitRef(t) ==
  LET parts == Split(t, Colon)
  IN [type |-> parts[1], id |-> JoinParts(Tail(parts), Colon)]

\* The type of a reference as the first piece LookupMedia switches on.
KindOf(type) ==
  IF type = <<"item">> THEN "item:"
  ELSE IF type = <<"static">> THEN "static:"
  ELSE "unknown:"

\* The item registry of the game: one item, under its namespaced id.
OakLogs == <<"melvorD", Colon, "Oak_Logs">>
ItemRegistry(id) == IF id = OakLogs THEN Found(<<"oak_logs.png">>) ELSE Missing

\* reconstructMedia of a reference given piece by piece: asked is the
\* registry lookup it makes, if any, and decoded what it returns.
ReconstructRef(t) ==
  IF t = <<>> THEN [asked |-> <<>>, decoded |-> Returned(<<>>)]
  ELSE IF Len(t) >= 2 /\ t[1] = "dl" /\ t[2] = Colon
  THEN [asked |-> <<>>,
        decoded |-> reconstructMedia(<<DL>> \o SubSeq(t, 3, Len(t)), Missing)]
  ELSE LET sp == SplitRef(t)
           kind == KindOf(sp.type)
           lk == IF kind = "item:" THEN ItemRegistry(sp.id) ELSE Missing
       IN [asked |-> IF kind = "item:" THEN <<[registry |-> "items", id |-> sp.id]>>
                     ELSE <<>>,
           decoded |-> reconstructMedia(<<kind>> \o sp.id, lk)]

InitRefs ==
  /\ notifications = <<>>
  /\ settings \in {st \in SettingsChoices : st.mode = "memory-only"}
  /\ timeWindow = "30"
  /\ now = 0
  /\ nextId = 0
  /\ saveDebounceTimer = null
  /\ timers = {}
  /\ saves = <<>>
  /\ prunes = <<>>
  /\ loads = <<>>
  /\ characterStorage = NoItem
  /\ localStorage = NoItem
  /\ lastOp = Op("init")
  /\ burst = [last |-> undefined, saves |-> 0, coalesced |-> 0]
  /\ calls = 0
  /\ codec \in [stage : {"ref"}, ref : Refs]
  /\ returned = NoHandle
  /\ capture = NoCapture
  /\ panel = NoPanel

\* reconstructMedia called on the reference.
ReconstructMediaRef ==
  /\ codec.stage = "ref"
  /\ LET sp == SplitRef(codec.ref)
         out == ReconstructRef(codec.ref)
     IN codec' = [stage |-> "split", ref |-> codec.ref, type |-> sp.type,
                  id |-> sp.id, asked |-> out.asked, decoded |-> out.decoded]
  /\ CodecStep("reconstructMedia")

SpecRefs == InitRefs /\ [][ReconstructMediaRef]_vars

\* A symbolic reference: not empty and not of the fallback form.
Symbolic(t) == t # <<>> /\ ~(Len(t) >= 2 /\ t[1] = "dl" /\ t[2] = Colon)
HasColon(t) == \E i \in 1..Len(t) : t[i] = Colon
FirstColon(t) ==
  CHOOSE i \in 1..Len(t) : t[i] = Colon /\ \A j \in 1..(i - 1) : t[j] # Colon

\* C35: reconstructMedia splits a symbolic reference at its first ':'
\* only: the type is the text before it and the id is everything after it,
\* further ':' kept; the item registry is asked for exactly that id; a
\* 'static:<id>' reference resolves to 'assets/media/main/<id>'.
C35_SplitAtFirstColon ==
  (codec.stage = "split" /\ Symbolic(codec.ref) /\ HasColon(codec.ref)) =>
    LET t == codec.ref
        k == FirstColon(t)
        before == SubSeq(t, 1, k - 1)
        after == SubSeq(t, k + 1, Len(t))
    IN /\ codec.type = before
       /\ codec.id = after
       /\ before = <<"item">> =>
            /\ codec.asked = <<[registry |-> "items", id |-> after]>>
            /\ codec.decoded = Returned(ItemRegistry(after).media)
       /\ before = <<"static">> =>
            /\ codec.asked = <<>>
            /\ codec.decoded = Returned(<<StaticDir>> \o after)

\* C35 witness: "item:melvorD:Oak_Logs" was looked up as "melvorD:Oak_Logs"
\* in the item registry and resolved to the item's media.
C35_Witness ==
  /\ codec.stage = "split"
  /\ codec.ref = <<"item", Colon, "melvorD", Colon, "Oak_Logs">>
  /\ codec.asked = <<[registry |-> "items", id |-> OakLogs]>>
  /\ codec.decoded = Returned(<<"oak_logs.png">>)


\* ------------------------------------------------------------------ C36
\* The values of the dropdown's 'Never' and 'Always' options.
ExtremeWindows == {"never", "always"}

InitWindow ==
  /\ notifications = <<>>
  /\ settings \in {st \in SettingsChoices : st.mode = "memory-only"}
  /\ timeWindow \in ExtremeWindows
  /\ now = 0
  /\ nextId = 0
  /\ saveDebounceTimer = null
  /\ timers = {}
  /\ saves = <<>>
  /\ prunes = <<>>
  /\ loads = <<>>
  /\ characterStorage = NoItem
  /\ localStorage = NoItem
  /\ lastOp = Op("init")
  /\ burst = [last |-> undefined, saves |-> 0, coalesced |-> 0]
  /\ calls = 0
  /\ codec = NoCodec
  /\ returned = NoHandle
  /\ capture = NoCapture
  /\ panel = NoPanel

NextWindow ==
  \/ StoreAddOk
  \/ StoreTick
  \/ TimerOk

SpecWindow == InitWindow /\ [][NextWindow]_vars

\* C36: with the window set to the value offered as 'Never' every add
\* creates a new record and none merges; with the value offered as 'Always'
\* an add merges whenever a record matches, whatever its age.
C36_NeverAndAlways ==
  [][lastOp'.op = "add" =>
       /\ timeWindow = "never" =>
            /\ ~lastOp'.merged
            /\ Len(notifications') = Len(notifications) + 1
       /\ ( /\ timeWindow = "always"
            /\ \E i \in 1..Len(notifications) :
                 Matches(notifications[i], lastOp'.ev) )
            => lastOp'.merged]_vars


\* ------------------------------------------------------------------ C37
\* Adds that interleave with eviction passes, two of which may be suspended
\* at once, over a sequence that already holds records.
MaxOverlap == 2

OverlapAdd ==
  /\ \E e \in StoreEvents : AddNotificationUpTo(e, now, TRUE, MaxOverlap)
  /\ UNCHANGED calls

NextOverlap ==
  \/ OverlapAdd
  \/ StoreTick
  \/ PruneOk

SpecOverlap == InitEvict /\ [][NextOverlap]_vars

\* C37: eviction removes oldest entries only, also while adds interleave
\* with a pass or two passes overlap: every record an eviction step removes
\* is, when it is popped, no newer than any record still in the sequence
\* (the records before it), and the step removes a suffix.
C37_EvictsOldestOnly ==
  [][lastOp'.op = "prune-pop" =>
       /\ Len(notifications') < Len(notifications)
       /\ notifications' = SubSeq(notifications, 1, Len(notifications'))
       /\ \A j \in (Len(notifications') + 1)..Len(notifications) :
            \A i \in 1..(j - 1) :
              notifications[j].timestamp <= notifications[i].timestamp]_vars

\* C37 witness: a pass popped records while a second pass was suspended,
\* after an add had merged into a record, and records stay.
C37_Witness ==
  /\ lastOp.op = "prune-pop"
  /\ Len(prunes) = 2
  /\ notifications # <<>>
  /\ \E i \in 1..Len(notifications) : notifications[i].count > 1


\* ------------------------------------------------------------------ C38
\* addNotification alone, from an empty store that never evicts (the mode
\* is memory-only): calls counts the addNotification calls made.
NextCount ==
  \/ StoreAddOk
  \/ StoreTick
  \/ TimerOk

SpecCount == InitVolatile /\ [][NextCount]_vars

RECURSIVE SumCounts(_)
SumCounts(list) ==
  IF list = <<>> THEN 0 ELSE Head(list).count + SumCounts(Tail(list))

\* C38: from an empty store, with addNotification only and no eviction,
\* the counts of the records add up to the number of addNotification calls.
C38_CountsSumToCalls == SumCounts(notifications) = calls

\* C38 witness: three calls, one of which merged: two records, one of
\* count 2.
C38_Witness ==
  /\ calls = 3
  /\ Len(notifications) = 2
  /\ \E i \in 1..2 : notifications[i].count = 2


\* ------------------------------------------------------------------ C39
\* C39: the persisted form is stable across a load and the next save: for
\* every record r, optimizeNotification(reconstructNotification(
\* optimizeNotification(r))) equals optimizeNotification(r).
C39_PersistedFormStable ==
  codec.stage = "again" => codec.again = codec.stored


\* --------------------------------------------- the panel's timestamp tick
MaxItems == 3

\* getTimestampAge: whole seconds, minutes, hours and days since timestamp.
getTimestampAge(timestamp, nowMs) ==
  LET seconds == (nowMs - timestamp) \div 1000
      minutes == seconds \div 60
      hours == minutes \div 60
      days == hours \div 24
  IN [seconds |-> seconds, minutes |-> minutes, hours |-> hours, days |-> days]

\* Mutant: an item between a minute and an hour old is due every 7 ticks.
getTimestampUpdateCycle_Seven(timestamp, nowMs) ==
  LET age == getTimestampAge(timestamp, nowMs)
  IN IF age.minutes < 1 THEN 1
     ELSE IF age.hours < 1 THEN 7
     ELSE IF age.days < 1 THEN 3600
     ELSE 86400

\* The ticks that must pass before the display string can change.
getTimestampUpdateCycle(timestamp, nowMs) ==
  LET age == getTimestampAge(timestamp, nowMs)
  IN IF age.minutes < 1 THEN 1
     ELSE IF age.hours < 1 THEN 60
     ELSE IF age.days < 1 THEN 3600
     ELSE 86400

\* formatTimestamp: the display string, as its unit and number; the
\* absolute format depends on the timestamp alone.
formatTimestamp(timestamp, nowMs, format) ==
  LET age == getTimestampAge(timestamp, nowMs)
  IN IF format = "relative"
     THEN IF age.days > 0 THEN [unit |-> "d ago", n |-> age.days]
          ELSE IF age.hours > 0 THEN [unit |-> "h ago", n |-> age.hours]
          ELSE IF age.minutes > 0 THEN [unit |-> "m ago", n |-> age.minutes]
          ELSE IF age.seconds <= 3 THEN [unit |-> "just now", n |-> 0]
          ELSE [unit |-> "s ago", n |-> age.seconds]
     ELSE [unit |-> "locale", n |-> timestamp]

\* The while loop of countDueItems, count items being counted so far.
RECURSIVE CountDueFrom(_, _, _, _)
CountDueFrom(items, count, cycleCount, nowMs) ==
  IF count < Len(items)
     /\ cycleCount % getTimestampUpdateCycle(items[count + 1].timestamp, nowMs) = 0
  THEN CountDueFrom(items, count + 1, cycleCount, nowMs)
  ELSE count

countDueItems(items, cycleCount, nowMs) ==
  CountDueFrom(items, 0, cycleCount, nowMs)

\* refreshDueItems: the first count items, each a new object when its
\* string changed and the item itself otherwise.
refreshDueItems(items, count, nowMs, format) ==
  LET newStr(i) == formatTimestamp(items[i].timestamp, nowMs, format)
  IN [next |-> [i \in 1..count |->
                  IF newStr(i) # items[i].timestampStr
                  THEN [items[i] EXCEPT !.timestampStr = newStr(i)]
                  ELSE items[i]],
      changed |-> \E i \in 1..count : newStr(i) # items[i].timestampStr]

\* tickTimestamps: same is TRUE when prev itself is returned.
tickTimestamps(prev, cycleCount, nowMs, format) ==
  LET dueCount == countDueItems(prev, cycleCount, nowMs)
      r == refreshDueItems(prev, dueCount, nowMs, format)
  IN IF dueCount = 0 THEN [same |-> TRUE, items |-> prev]
     ELSE IF ~r.changed THEN [same |-> TRUE, items |-> prev]
     ELSE [same |-> FALSE,
           items |-> r.next \o SubSeq(prev, dueCount + 1, Len(prev))]

\* Ages of displayed items in milliseconds, on both sides of every
\* threshold; tick counts of the interval timer; how long ago the strings
\* on display were formatted.
AgeSamples ==
  {0, 3999, 4000, 59999, 60000, 3599999, 3600000, 86399999, 86400000}
TickCounts == {1, 59, 60, 61, 3600, 3660, 86400, 86460}
StrLags == {0, 1000}
PanelNow == 2 * 86400000

\* Display lists sorted newest first: ages never decrease along the list.
SortedAges ==
  { a \in SeqsUpTo(AgeSamples, MaxItems) :
      \A i \in 1..(Len(a) - 1) : a[i] <= a[i + 1] }

DisplayItems(ages, lag, format) ==
  [i \in 1..Len(ages) |->
     [timestamp |-> PanelNow - ages[i],
      timestampStr |-> formatTimestamp(PanelNow - ages[i], PanelNow - lag, format)]]

InitPanel ==
  /\ notifications = <<>>
  /\ settings \in {st \in SettingsChoices : st.mode = "memory-only"}
  /\ timeWindow = "30"
  /\ now = PanelNow
  /\ nextId = 0
  /\ saveDebounceTimer = null
  /\ timers = {}
  /\ saves = <<>>
  /\ prunes = <<>>
  /\ loads = <<>>
  /\ characterStorage = NoItem
  /\ localStorage = NoItem
  /\ lastOp = Op("init")
  /\ burst = [last |-> undefined, saves |-> 0, coalesced |-> 0]
  /\ calls = 0
  /\ codec = NoCodec
  /\ returned = NoHandle
  /\ capture = NoCapture
  /\ \E ages \in SortedAges, lag \in StrLags, format \in {"relative", "absolute"},
        cycleCount \in TickCounts :
       panel = [stage |-> "shown", items |-> DisplayItems(ages, lag, format),
                format |-> format, cycleCount |-> cycleCount]

\* One callback of the interval timer: setNotificationDisplayItems with
\* tickTimestamps(prev, cycleCount).
TickTimestamps ==
  /\ panel.stage = "shown"
  /\ panel' = [stage |-> "ticked", items |-> panel.items,
               format |-> panel.format, cycleCount |-> panel.cycleCount,
               dueCount |-> countDueItems(panel.items, panel.cycleCount, now),
               result |-> tickTimestamps(panel.items, panel.cycleCount, now,
                                         panel.format)]
  /\ lastOp' = Op("tickTimestamps")
  /\ UNCHANGED <<capture, notifications, settings, timeWindow, now, nextId,
                 saveDebounceTimer, timers, saves, prunes, loads,
                 characterStorage, localStorage, burst, calls, codec, returned>>

SpecPanel == InitPanel /\ [][TickTimestamps]_vars

\* C40: for a display list sorted newest first, at every tick count every
\* item whose update cycle divides the tick count lies inside the leading
\* prefix countDueItems returns; and tickTimestamps returns the very list
\* it was given when no display string of that prefix changed.
C40_DuePrefixLosesNothing ==
  panel.stage = "ticked" =>
    /\ \A i \in 1..Len(panel.items) :
         panel.cycleCount
           % getTimestampUpdateCycle(panel.items[i].timestamp, now) = 0
         => i <= panel.dueCount
    /\ ( \A i \in 1..panel.dueCount :
           formatTimestamp(panel.items[i].timestamp, now, panel.format)
             = panel.items[i].timestampStr )
         => panel.result.same /\ panel.result.items = panel.items

\* C40 witness: of three items the first two were due and the third was
\* not, no string changed and the list came back as it was.
C40_Witness ==
  /\ panel.stage = "ticked"
  /\ Len(panel.items) = 3
  /\ panel.dueCount = 2
  /\ panel.result.same

====
